---------------------------- MODULE Spec2Model ----------------------------
(***************************************************************************)
(* Signal & Backtest Engine of the Transplier-program repository:          *)
(*   - Trade / Backtester            src/src/backtesting/backtester.py     *)
(*   - TradingStrategy, TradeSignal  src/src/deriv_api/strategy_interface.py*)
(*   - FourierStrategy               src/src/strategies/fourier_strategy.py *)
(*   - DerivTradingEngine / client   src/src/deriv_api/engine.py, client.py *)
(*   - profit-factor computations    src/tools/*.py, src/*.py               *)
(*                                                                         *)
(* Python floats are modelled as exact rationals [n, d] in lowest terms,   *)
(* so "equal within float tolerance" becomes exact equality.  An optional  *)
(* value (Python None / a value) is the empty / one-element sequence.      *)
(***************************************************************************)
EXTENDS Integers, Sequences, FiniteSets, TLC

VARIABLES
    \* ---- Backtester (backtester.py) ----
    bt_pc,            \* position inside Backtester.run: ready / loop / done / raised
    df,               \* the DataFrame handed to run: a sequence of rows
    idx,              \* number of rows iterated so far by the for-loop
    runs,             \* number of calls of run() so far
    initial_balance,  \* Backtester.initial_balance
    current_trade,    \* Backtester.current_trade (optional Trade)
    closed_trades,    \* Backtester.closed_trades
    equity_curve,     \* Backtester.equity_curve
    timestamps,       \* Backtester.timestamps
    running_pnl,      \* Backtester.running_pnl
    result,           \* the BacktestResult of the last returned run (optional)
    prev_result,      \* the BacktestResult of the run before that (optional)
    entered,          \* history: the trades _enter_trade created in this run
    signal,           \* the TradeSignal the last get_signal() returned (optional)
    \* ---- TradingStrategy / FourierStrategy ----
    strategy_class,   \* the class of the strategy object
    position,         \* TradingStrategy.position (optional dict)
    data_buffer,      \* TradingStrategy.data_buffer
    indicators,       \* TradingStrategy.indicators (dict: key -> value)
    smoothed_prices,  \* FourierStrategy.smoothed_prices
    predicted_price,  \* FourierStrategy.predicted_price (optional)
    mtf_predicted_price, \* FourierStrategy.mtf_predicted_price (optional)
    atr_history,      \* EnhancedFourierStrategy.atr_history
    highest_profit,   \* EnhancedFourierStrategy.highest_profit
    cos_table,        \* the values of cos(2*pi*f*h + atan2(y, x)) used so far
    \* ---- the tools that compute a profit factor ----
    profit_factor,    \* tool -> the profit factor it computed (optional)
    \* ---- DerivTradingEngine / DerivAPIClient (engine.py, client.py) ----
    engine,           \* the fields of the DerivTradingEngine
    client,           \* the fields of the DerivAPIClient
    ws,               \* the websocket: requests on their way out, messages on their way in
    task,             \* where the asyncio tasks (start() and _receiver()) stand
    broker,           \* the broker's side: subscription, candles pushed, requests received
    clock             \* the event loop's time()

vars == << bt_pc, df, idx, runs, initial_balance, current_trade, closed_trades,
           equity_curve, timestamps, running_pnl, result, prev_result, entered,
           signal, strategy_class, position, data_buffer, indicators, smoothed_prices,
           predicted_price, mtf_predicted_price, atr_history, highest_profit,
           cos_table, profit_factor,
           engine, client, ws, task, broker, clock >>

liveVars == << engine, client, ws, task, broker, clock >>

\* the state of a FourierStrategy besides position (cos_table is mathematics,
\* not state: it only records which values the cosine has taken)
stratVars == << data_buffer, indicators, smoothed_prices, predicted_price,
                mtf_predicted_price, atr_history, highest_profit, strategy_class >>

btVars == << bt_pc, df, idx, runs, initial_balance, current_trade, closed_trades,
             equity_curve, timestamps, running_pnl, result, prev_result, entered >>

-----------------------------------------------------------------------------
(* Optional values                                                         *)
None == << >>
Some(x) == << x >>
IsNone(o) == o = << >>
Get(o) == o[1]

-----------------------------------------------------------------------------
(* Exact rational arithmetic standing for float64                          *)
Abs(x) == IF x < 0 THEN -x ELSE x

RECURSIVE GCD(_, _)
GCD(a, b) == IF b = 0 THEN a ELSE GCD(b, a % b)

Rat(n, d) ==
    LET s == IF d < 0 THEN -1 ELSE 1
        g == GCD(Abs(n), Abs(d))
    IN  [n |-> (s * n) \div g, d |-> (s * d) \div g]

RatOf(i) == [n |-> i, d |-> 1]
Zero == RatOf(0)
One == RatOf(1)
RatAdd(a, b) == Rat(a.n * b.d + b.n * a.d, a.d * b.d)
RatSub(a, b) == Rat(a.n * b.d - b.n * a.d, a.d * b.d)
RatMul(a, b) == Rat(a.n * b.n, a.d * b.d)
RatDiv(a, b) == Rat(a.n * b.d, a.d * b.n)
RatNeg(a) == [n |-> -a.n, d |-> a.d]
RatAbs(a) == [n |-> Abs(a.n), d |-> a.d]
RatLt(a, b) == a.n * b.d < b.n * a.d
RatLe(a, b) == a.n * b.d <= b.n * a.d
RatMin(a, b) == IF RatLt(b, a) THEN b ELSE a
RatMax(a, b) == IF RatLt(a, b) THEN b ELSE a

RECURSIVE RatSum(_)
RatSum(s) == IF s = << >> THEN Zero ELSE RatAdd(RatSum(SubSeq(s, 1, Len(s) - 1)), s[Len(s)])

-----------------------------------------------------------------------------
(* Bounds and inputs of the backtest                                        *)
MaxRows == 3          \* longest DataFrame handed to run
MaxRuns == 2          \* run() is called at most this often on one Backtester
stake_per_trade == 30 \* Backtester(stake_per_trade=...)
Prices == {0, 100, 103}
InitialBalances == {0, 1000}

\* A DataFrame row; ok = FALSE stands for a row whose time or price field is
\* missing or unparsable, so that int(...) / float(...) raises on it.
RowKinds(closes) ==
    [close : closes, spread : {0}, ok : {TRUE}]
        \cup {[close |-> 0, spread |-> 0, ok |-> FALSE]}

MkDF(kinds) ==
    [i \in 1..Len(kinds) |->
        [time |-> i, open |-> kinds[i].close,
         high |-> kinds[i].close + kinds[i].spread,
         low |-> kinds[i].close - kinds[i].spread,
         close |-> kinds[i].close, ok |-> kinds[i].ok]]

SeqsUpTo(S, n) == UNION {[1..k -> S] : k \in 0..n}

-----------------------------------------------------------------------------
(* strategy_interface.py                                                   *)
Signals == {"BUY", "SELL", "HOLD", "CLOSE"}

TradeSignal(sig, strength, stop_loss, take_profit) ==
    [signal |-> sig, strength |-> strength,
     stop_loss |-> stop_loss, take_profit |-> take_profit]

Hold == TradeSignal("HOLD", Zero, None, None)

\* What a TradingStrategy of unknown class may return from get_signal.
AnySignal ==
    { Hold,
      TradeSignal("CLOSE", One, None, None),
      TradeSignal("BUY", One, None, None),
      TradeSignal("BUY", One, Some(RatOf(50)), Some(RatOf(250))),
      TradeSignal("SELL", One, Some(RatOf(150)), Some(RatOf(-50))) }

-----------------------------------------------------------------------------
(* backtester.py: Trade                                                    *)
NewTrade(entry_time, entry_price, entry_signal, stake) ==
    [entry_time |-> entry_time, entry_price |-> entry_price,
     entry_signal |-> entry_signal, stake |-> stake,
     exit_time |-> None, exit_price |-> None, exit_reason |-> None,
     pnl |-> None, pnl_pct |-> None, duration_seconds |-> None]

\* Trade.close: pnl and pnl_pct of a trade closed at exit_price
TradePnlUnsigned(t, exit_price) ==
    IF t.entry_price = 0 THEN Zero
    ELSE RatMul(RatOf(exit_price - t.entry_price), Rat(t.stake, t.entry_price))

TradePnl(t, exit_price) ==
    IF t.entry_price = 0 THEN Zero
    ELSE LET price_change == RatOf(exit_price - t.entry_price)
             quantity == Rat(t.stake, t.entry_price)
         IN  IF t.entry_signal = "BUY"
             THEN RatMul(price_change, quantity)
             ELSE RatMul(RatNeg(price_change), quantity)

TradePnlPct(t, exit_price) ==
    IF t.entry_price = 0 THEN Zero
    ELSE LET ret_pct == Rat(exit_price - t.entry_price, t.entry_price)
         IN  IF t.entry_signal = "BUY"
             THEN RatMul(ret_pct, RatOf(100))
             ELSE RatMul(RatNeg(ret_pct), RatOf(100))

TradeClose(t, exit_time, exit_price, reason) ==
    [t EXCEPT !.exit_time = Some(exit_time),
              !.exit_price = Some(exit_price),
              !.exit_reason = Some(reason),
              !.duration_seconds = Some(exit_time - t.entry_time),
              !.pnl = Some(TradePnl(t, exit_price)),
              !.pnl_pct = Some(TradePnlPct(t, exit_price))]

-----------------------------------------------------------------------------
(* backtester.py: Backtester._calculate_metrics                            *)
\* max(...) / min(...) and np.max / np.min of a non-empty sequence
RatMaxSeq(s) ==
    s[CHOOSE i \in 1..Len(s) : \A j \in 1..Len(s) : RatLe(s[j], s[i])]

RatMinSeq(s) ==
    s[CHOOSE i \in 1..Len(s) : \A j \in 1..Len(s) : RatLe(s[i], s[j])]

RECURSIVE IntSum(_)
IntSum(s) == IF s = << >> THEN 0 ELSE IntSum(SubSeq(s, 1, Len(s) - 1)) + s[Len(s)]

Pnls(trades) ==
    LET closed == SelectSeq(trades, LAMBDA t : ~IsNone(t.pnl))
    IN  [i \in 1..Len(closed) |-> Get(closed[i].pnl)]

\* The drawdown loop: peak starts at the first point, drawdown is measured
\* against the running peak and is 0 while the peak is not positive.
RECURSIVE DrawdownFrom(_, _, _, _)
DrawdownFrom(equity_array, i, peak, max_dd) ==
    IF i > Len(equity_array) THEN max_dd
    ELSE LET equity == equity_array[i]
             peak2 == IF RatLt(peak, equity) THEN equity ELSE peak
             drawdown == IF RatLt(Zero, peak2)
                         THEN RatMul(RatDiv(RatSub(peak2, equity), peak2), RatOf(100))
                         ELSE Zero
         IN  DrawdownFrom(equity_array, i + 1, peak2,
                          IF RatLt(max_dd, drawdown) THEN drawdown ELSE max_dd)

RECURSIVE DrawdownFlipped(_, _, _, _)
DrawdownFlipped(equity_array, i, peak, max_dd) ==
    IF i > Len(equity_array) THEN max_dd
    ELSE LET equity == equity_array[i]
             peak2 == IF RatLt(peak, equity) THEN equity ELSE peak
             drawdown == IF RatLt(Zero, peak2)
                         THEN RatMul(RatDiv(RatSub(equity, peak2), peak2), RatOf(100))
                         ELSE Zero
         IN  DrawdownFlipped(equity_array, i + 1, peak2,
                             IF RatLt(max_dd, drawdown) THEN drawdown ELSE max_dd)

MaxDrawdownFlipped(equity_array) ==
    DrawdownFlipped(equity_array, 1,
                    IF equity_array # << >> THEN equity_array[1] ELSE Zero, Zero)

MaxDrawdown(equity_array) ==
    DrawdownFrom(equity_array, 1,
                 IF equity_array # << >> THEN equity_array[1] ELSE Zero, Zero)

CalculateMetrics(trades, equity, stamps) ==
    LET total == Len(trades)
        pnls == Pnls(trades)
        wins == SelectSeq(pnls, LAMBDA p : RatLt(Zero, p))
        losses == SelectSeq(pnls, LAMBDA p : RatLt(p, Zero))
        winning == Len(wins)
        total_pnl == RatSum(pnls)
        durs == SelectSeq([i \in 1..total |-> trades[i].duration_seconds],
                          LAMBDA d : ~IsNone(d) /\ Get(d) # 0)
    IN  [total_trades |-> total,
         winning_trades |-> winning,
         losing_trades |-> total - winning,
         win_rate |-> IF total # 0 THEN Rat(winning * 100, total) ELSE Zero,
         total_pnl |-> total_pnl,
         avg_pnl_per_trade |-> IF total > 0 THEN RatDiv(total_pnl, RatOf(total)) ELSE Zero,
         max_profit |-> IF pnls # << >> THEN RatMaxSeq(pnls) ELSE Zero,
         max_loss |-> IF pnls # << >> THEN RatMinSeq(pnls) ELSE Zero,
         largest_win |-> IF wins # << >> THEN RatMaxSeq(wins) ELSE Zero,
         largest_loss |-> IF losses # << >> THEN RatMinSeq(losses) ELSE Zero,
         avg_trade_duration_sec |->
             IF durs # << >>
             THEN Rat(IntSum([i \in 1..Len(durs) |-> Get(durs[i])]), Len(durs))
             ELSE Zero,
         max_drawdown |-> MaxDrawdown(equity),
         trades |-> trades,
         equity_curve |-> equity,
         timestamps |-> stamps]

-----------------------------------------------------------------------------
(* backtester.py: Backtester.run, _enter_trade, _close_trade                *)

\* run, lines 156-171: the row converts to a candle (otherwise int()/float() raise)
RowOk(row) == row.ok

Candle(row) ==
    [open |-> row.open, high |-> row.high, low |-> row.low,
     close |-> row.close, epoch |-> row.time]

\* run, lines 188 and 191: "and not self.current_trade"
CanEnterAlways(trade) == TRUE

CanEnter(trade) == IsNone(trade)

\* run, line 194: "and self.current_trade"
CanClose(trade) == ~IsNone(trade)

\* _enter_trade: the position dict reflected to the strategy
PositionOf(candle, signal_type, sig) ==
    [type |-> IF signal_type = "BUY" THEN "LONG" ELSE "SHORT",
     entry_price |-> candle.close,
     entry_time |-> candle.epoch,
     stop_loss |-> sig.stop_loss,
     take_profit |-> sig.take_profit]

EnterTrade(candle, signal_type, sig) ==
    /\ current_trade' =
           Some(NewTrade(candle.epoch, candle.close, signal_type, stake_per_trade))
    /\ position' = Some(PositionOf(candle, signal_type, sig))
    /\ entered' = Append(entered, [entry_time |-> candle.epoch,
                                   entry_signal |-> signal_type])
    /\ UNCHANGED << closed_trades, running_pnl >>

\* _close_trade, lines 254-268 (the caller has checked that a trade is open)
ClosedNow(candle, reason) ==
    TradeClose(Get(current_trade), candle.epoch, candle.close, reason)

\* _close_trade without its set_position(None)
CloseTradeKeepsPosition(candle, reason) ==
    IF IsNone(current_trade)
    THEN UNCHANGED << current_trade, closed_trades, running_pnl, position, entered >>
    ELSE /\ running_pnl' = RatAdd(running_pnl, Get(ClosedNow(candle, reason).pnl))
         /\ closed_trades' = Append(closed_trades, ClosedNow(candle, reason))
         /\ current_trade' = None
         /\ UNCHANGED << position, entered >>

CloseTrade(candle, reason) ==
    IF IsNone(current_trade)
    THEN UNCHANGED << current_trade, closed_trades, running_pnl, position, entered >>
    ELSE /\ running_pnl' = RatAdd(running_pnl, Get(ClosedNow(candle, reason).pnl))
         /\ closed_trades' = Append(closed_trades, ClosedNow(candle, reason))
         /\ position' = None
         /\ current_trade' = None
         /\ UNCHANGED entered

\* run, line 198: the equity point appended after a processed candle
EquityPointMarkToMarket(balance, realized, trade, candle) ==
    IF IsNone(trade) THEN RatAdd(RatOf(balance), realized)
    ELSE RatAdd(RatAdd(RatOf(balance), realized), TradePnl(Get(trade), candle.close))

EquityPoint(balance, realized, trade, candle) ==
    RatAdd(RatOf(balance), realized)

\* a dispatch that would also act on the stop_loss / take_profit carried by
\* the position
StopOrTargetHit(candle) ==
    /\ ~IsNone(current_trade)
    /\ ~IsNone(position)
    /\ \/ /\ ~IsNone(Get(position).stop_loss)
          /\ IF Get(position).type = "LONG"
             THEN RatLe(RatOf(candle.close), Get(Get(position).stop_loss))
             ELSE RatLe(Get(Get(position).stop_loss), RatOf(candle.close))
       \/ /\ ~IsNone(Get(position).take_profit)
          /\ IF Get(position).type = "LONG"
             THEN RatLe(Get(Get(position).take_profit), RatOf(candle.close))
             ELSE RatLe(RatOf(candle.close), Get(Get(position).take_profit))

ProcessSignalWithStops(candle, sig) ==
    /\ IF StopOrTargetHit(candle)
       THEN CloseTrade(candle, "Stop")
       ELSE IF sig.signal = "BUY" /\ CanEnter(current_trade)
       THEN EnterTrade(candle, "BUY", sig)
       ELSE IF sig.signal = "SELL" /\ CanEnter(current_trade)
       THEN EnterTrade(candle, "SELL", sig)
       ELSE IF sig.signal = "CLOSE" /\ CanClose(current_trade)
       THEN CloseTrade(candle, "Signal")
       ELSE UNCHANGED << current_trade, closed_trades, running_pnl, position, entered >>
    /\ equity_curve' = Append(equity_curve,
           EquityPoint(initial_balance, running_pnl', current_trade', candle))
    /\ timestamps' = Append(timestamps, candle.epoch)

\* run, lines 188-199: dispatch of the signal, then the equity point
ProcessSignal(candle, sig) ==
    /\ IF sig.signal = "BUY" /\ CanEnter(current_trade)
       THEN EnterTrade(candle, "BUY", sig)
       ELSE IF sig.signal = "SELL" /\ CanEnter(current_trade)
       THEN EnterTrade(candle, "SELL", sig)
       ELSE IF sig.signal = "CLOSE" /\ CanClose(current_trade)
       THEN CloseTrade(candle, "Signal")
       ELSE UNCHANGED << current_trade, closed_trades, running_pnl, position, entered >>
    /\ equity_curve' = Append(equity_curve,
           EquityPoint(initial_balance, running_pnl', current_trade', candle))
    /\ timestamps' = Append(timestamps, candle.epoch)

\* run, lines 140-147: the reset of the ledger
ResetLedger ==
    /\ current_trade' = None
    /\ closed_trades' = << >>
    /\ equity_curve' = << RatOf(initial_balance) >>
    /\ timestamps' = << >>
    /\ running_pnl' = Zero
    /\ entered' = << >>

\* run is called (again): the strategy and the ledger are reset, the loop starts
RunStart ==
    /\ UNCHANGED << profit_factor, liveVars >>
    /\ bt_pc \in {"ready", "done", "raised"}
    /\ runs < MaxRuns
    /\ bt_pc' = "loop"
    /\ runs' = runs + 1
    /\ idx' = 0
    /\ position' = None
    /\ ResetLedger
    /\ result' = None
    /\ signal' = None
    /\ UNCHANGED << df, initial_balance, prev_result, stratVars, cos_table >>

\* one iteration of the for-loop on a well-formed row: update, get_signal (any
\* TradingStrategy, any signal), dispatch, equity point
ProcessCandle ==
    /\ UNCHANGED << profit_factor, liveVars >>
    /\ bt_pc = "loop"
    /\ idx < Len(df)
    /\ RowOk(df[idx + 1])
    /\ \E sig \in AnySignal :
          /\ signal' = Some(sig)
          /\ ProcessSignal(Candle(df[idx + 1]), sig)
    /\ idx' = idx + 1
    /\ UNCHANGED << bt_pc, df, runs, initial_balance, result, prev_result,
                    stratVars, cos_table >>

\* one iteration in which update or get_signal raises: caught at line 201,
\* the candle is skipped without an equity point
SkipCandle ==
    /\ UNCHANGED << profit_factor, liveVars >>
    /\ bt_pc = "loop"
    /\ idx < Len(df)
    /\ RowOk(df[idx + 1])
    /\ idx' = idx + 1
    /\ signal' = None
    /\ UNCHANGED << bt_pc, df, runs, initial_balance, current_trade, closed_trades,
                    equity_curve, timestamps, running_pnl, result, prev_result,
                    entered, position, stratVars, cos_table >>

\* one iteration on a malformed row: lines 156-171 are outside the try block,
\* so the exception leaves run
RaiseOnRow ==
    /\ UNCHANGED << profit_factor, liveVars >>
    /\ bt_pc = "loop"
    /\ idx < Len(df)
    /\ ~RowOk(df[idx + 1])
    /\ bt_pc' = "raised"
    /\ idx' = idx + 1
    /\ signal' = None
    /\ UNCHANGED << df, runs, initial_balance, current_trade, closed_trades,
                    equity_curve, timestamps, running_pnl, result, prev_result,
                    entered, position, stratVars, cos_table >>

\* run, lines 205-221: the loop is over; an open trade is closed at the last
\* row, the metrics are computed and returned
RunFinishNoForcedClose ==
    /\ UNCHANGED << profit_factor, liveVars >>
    /\ bt_pc = "loop"
    /\ idx = Len(df)
    /\ UNCHANGED << current_trade, closed_trades, running_pnl, position, entered >>
    /\ result' = Some(CalculateMetrics(closed_trades', equity_curve, timestamps))
    /\ bt_pc' = "done"
    /\ UNCHANGED << df, idx, runs, initial_balance, equity_curve, timestamps,
                    prev_result, signal, stratVars, cos_table >>

RunFinish ==
    /\ UNCHANGED << profit_factor, liveVars >>
    /\ bt_pc = "loop"
    /\ idx = Len(df)
    /\ IF ~IsNone(current_trade)
       THEN CloseTrade(Candle(df[Len(df)]), "End of backtest")
       ELSE UNCHANGED << current_trade, closed_trades, running_pnl, position, entered >>
    /\ result' = Some(CalculateMetrics(closed_trades', equity_curve, timestamps))
    /\ bt_pc' = "done"
    /\ UNCHANGED << df, idx, runs, initial_balance, equity_curve, timestamps,
                    prev_result, signal, stratVars, cos_table >>

\* no tool has computed a profit factor / no live engine is constructed
NoProfitFactor == profit_factor = << >>

NoEngine ==
    /\ engine = << >>
    /\ client = << >>
    /\ ws = << >>
    /\ task = << >>
    /\ broker = << >>
    /\ clock = 0

InitBacktester ==
    /\ bt_pc = "ready"
    /\ idx = 0
    /\ runs = 0
    /\ initial_balance \in InitialBalances
    /\ current_trade = None
    /\ closed_trades = << >>
    /\ equity_curve = << RatOf(initial_balance) >>
    /\ timestamps = << >>
    /\ running_pnl = Zero
    /\ result = None
    /\ prev_result = None
    /\ entered = << >>
    /\ signal = None

\* TradingStrategy.__init__ and FourierStrategy.__init__ (EnhancedFourierStrategy
\* adds atr_history and highest_profit)
InitStrategy ==
    /\ strategy_class = "FourierStrategy"
    /\ position = None
    /\ atr_history = << >>
    /\ highest_profit = Zero
    /\ data_buffer = << >>
    /\ indicators = << >>
    /\ smoothed_prices = << >>
    /\ predicted_price = None
    /\ mtf_predicted_price = None
    /\ cos_table = << >>

Init ==
    /\ df \in {MkDF(k) : k \in SeqsUpTo(RowKinds(Prices), MaxRows)}
    /\ InitBacktester
    /\ InitStrategy
    /\ NoProfitFactor
    /\ NoEngine

Next ==
    \/ RunStart
    \/ ProcessCandle
    \/ SkipCandle
    \/ RaiseOnRow
    \/ RunFinish

Spec == Init /\ [][Next]_vars

-----------------------------------------------------------------------------
(* Claims about Backtester.run, checked under Spec                          *)

Last(s) == s[Len(s)]

EntryKey(t) == [entry_time |-> t.entry_time, entry_signal |-> t.entry_signal]

\* a step of the loop that processed a candle to the end of the try block
ProcessedStep == bt_pc = "loop" /\ bt_pc' = "loop" /\ idx' = idx + 1 /\ ~IsNone(signal')

OneOpenAtMost ==
    /\ Len(entered) - Len(closed_trades) = (IF IsNone(current_trade) THEN 0 ELSE 1)
    /\ ~IsNone(current_trade) => Last(entered) = EntryKey(Get(current_trade))

EntryWhileOpenIgnored ==
    (ProcessedStep /\ ~IsNone(current_trade) /\ Get(signal').signal \in {"BUY", "SELL"})
        => /\ current_trade' = current_trade
           /\ closed_trades' = closed_trades
           /\ entered' = entered
           /\ position' = position

\* C1: during run at most one trade is open after any prefix of the candles,
\* whatever signals the strategy returns; a BUY or SELL received while a trade
\* is open creates no second trade and does not replace the open one.
C1_AtMostOneOpenTrade == []OneOpenAtMost /\ [][EntryWhileOpenIgnored]_vars

\* C1 witness: a BUY or SELL has just been received while a trade entered on
\* an earlier candle is open.
C1_Witness ==
    /\ bt_pc = "loop"
    /\ ~IsNone(signal)
    /\ Get(signal).signal \in {"BUY", "SELL"}
    /\ ~IsNone(current_trade)
    /\ Get(current_trade).entry_time < df[idx].time

NothingOpenAtReturn ==
    bt_pc = "done" =>
        /\ IsNone(current_trade)
        /\ Len(closed_trades) = Len(entered)
        /\ \A i \in 1..Len(entered) : EntryKey(closed_trades[i]) = entered[i]
        /\ \A i \in 1..Len(closed_trades) : ~IsNone(closed_trades[i].exit_reason)
        /\ Get(result).trades = closed_trades

OpenTradeForceClosed ==
    (bt_pc = "loop" /\ bt_pc' = "done" /\ ~IsNone(current_trade))
        => /\ Len(closed_trades') = Len(closed_trades) + 1
           /\ SubSeq(closed_trades', 1, Len(closed_trades)) = closed_trades
           /\ EntryKey(Last(closed_trades')) = EntryKey(Get(current_trade))
           /\ Last(closed_trades').exit_reason = Some("End of backtest")
           /\ Last(closed_trades').exit_price = Some(df[Len(df)].close)
           /\ Last(closed_trades').exit_time = Some(df[Len(df)].time)

\* C2: when run returns no trade is open; a trade still open after the last
\* candle is closed with reason "End of backtest" at the final candle's close;
\* every trade entered in the run is in the history exactly once.
C2_ForceCloseAtEnd == []NothingOpenAtReturn /\ [][OpenTradeForceClosed]_vars

\* C2 witness: run has returned, the only trade of the run was never closed by
\* a signal and is in the history with reason "End of backtest".
C2_Witness ==
    /\ bt_pc = "done"
    /\ Len(entered) = 1
    /\ Len(closed_trades) = 1
    /\ closed_trades[1].exit_reason = Some("End of backtest")

MarkToClose ==
    ProcessedStep =>
        /\ Len(equity_curve') = Len(equity_curve) + 1
        /\ SubSeq(equity_curve', 1, Len(equity_curve)) = equity_curve
        /\ Last(equity_curve') =
               RatAdd(RatOf(initial_balance), RatSum(Pnls(closed_trades')))
        /\ (~IsNone(current_trade) /\ current_trade' = current_trade)
               => Last(equity_curve') = Last(equity_curve)

\* C3: every processed candle appends exactly one equity point, equal to
\* initial_balance plus the pnl of the trades closed so far; while a trade
\* stays open the point repeats the previous one, whatever the price does.
C3_MarkToCloseEquity == [][MarkToClose]_vars

\* C3 witness: a candle was processed with a trade open since an earlier
\* candle, at a close different from the entry price.
C3_Witness ==
    /\ bt_pc = "loop"
    /\ ~IsNone(signal)
    /\ ~IsNone(current_trade)
    /\ Get(current_trade).entry_time < df[idx].time
    /\ Get(current_trade).entry_price # df[idx].close
    /\ Get(current_trade).entry_price # 0
    /\ Len(equity_curve) >= 3

\* C4: no fault on a single candle makes run raise or stop mid-replay.
C4_RunNeverRaises == bt_pc # "raised"

PnlExact(t) ==
    LET P0 == t.entry_price
        P1 == Get(t.exit_price)
        S == t.stake
        pnl == Get(t.pnl)
        pct == Get(t.pnl_pct)
        move == IF t.entry_signal = "BUY" THEN P1 - P0 ELSE P0 - P1
    IN  /\ P0 > 0 => /\ pnl.n * P0 = S * move * pnl.d
                     /\ pct.n * P0 = 100 * move * pct.d
        /\ (P0 = 100 /\ S = 30 /\ P1 = 103 /\ t.entry_signal = "BUY")
               => pnl = [n |-> 9, d |-> 10] /\ pct = RatOf(3)
        /\ Get(t.duration_seconds) = Get(t.exit_time) - t.entry_time

\* C7: a closed trade entered at P0 > 0 with stake S and closed at P1 has
\* pnl = S*(P1-P0)/P0 and pnl_pct = 100*(P1-P0)/P0 when BUY, the negated values
\* when SELL, and duration = exit_time - entry_time.
C7_PnlExact == \A i \in 1..Len(closed_trades) : PnlExact(closed_trades[i])

\* C7 witness: the history holds a BUY trade 100 -> 103 and a SELL trade with
\* a price move.
C7_Witness ==
    /\ \E i \in 1..Len(closed_trades) :
          /\ closed_trades[i].entry_signal = "BUY"
          /\ closed_trades[i].entry_price = 100
          /\ closed_trades[i].exit_price = Some(103)

C7_WitnessSell ==
    \E i \in 1..Len(closed_trades) :
        /\ closed_trades[i].entry_signal = "SELL"
        /\ closed_trades[i].entry_price > 0
        /\ closed_trades[i].exit_price # Some(closed_trades[i].entry_price)

NonDecreasing(curve) == \A i \in 1..(Len(curve) - 1) : RatLe(curve[i], curve[i + 1])

\* C8 as claimed: max_drawdown >= 0, and = 0 exactly when the equity curve is
\* non-decreasing, for every equity curve.
C8_DrawdownZeroIffNonDecreasing ==
    bt_pc = "done" =>
        /\ RatLe(Zero, Get(result).max_drawdown)
        /\ Get(result).max_drawdown = Zero <=> NonDecreasing(Get(result).equity_curve)

\* C8 amended: max_drawdown >= 0; it is 0 whenever the curve is non-decreasing;
\* when the first point (initial_balance) is positive it is 0 only if the
\* curve is non-decreasing.
C8_DrawdownPositivePeak ==
    bt_pc = "done" =>
        /\ RatLe(Zero, Get(result).max_drawdown)
        /\ NonDecreasing(Get(result).equity_curve) => Get(result).max_drawdown = Zero
        /\ RatLt(Zero, Get(result).equity_curve[1]) =>
               (Get(result).max_drawdown = Zero => NonDecreasing(Get(result).equity_curve))

\* C8 witness: run returned an equity curve that starts positive and declines.
C8_Witness ==
    /\ bt_pc = "done"
    /\ RatLt(Zero, Get(result).equity_curve[1])
    /\ ~NonDecreasing(Get(result).equity_curve)
    /\ RatLt(Zero, Get(result).max_drawdown)

-----------------------------------------------------------------------------
(* fourier_strategy.py: FourierStrategy                                     *)

\* strategy parameters (params.get(...)); the windows are scaled down from the
\* defaults 150 / 11 / 14 so that a prediction fits the bounded candle feed
lookback == 3
smooth_period == 2
atr_period == 2
forecast == 20
stake == 30
risk_cash == 15
rr_ratio == 3
atr_multiplier == Rat(1, 2)
mtf_enabled == FALSE

\* literals of the code
WarmupMargin == 20      \* required_candles: max(lookback, atr_period) + 20
BufferMargin == 50      \* update: max_buffer = required_candles + 50
SmaShort == 20          \* _calculate_indicators: closes[-20:]
SmaLong == 50           \* _calculate_indicators: closes[-50:]

Max2(a, b) == IF a < b THEN b ELSE a

required_candles_no_margin == Max2(lookback, atr_period)

required_candles == Max2(lookback, atr_period) + WarmupMargin

\* Python indexing seq[i] (negative from the end) and slicing seq[-n:]
PyIdx(seq, i) == IF i < 0 THEN seq[Len(seq) + 1 + i] ELSE seq[i + 1]
FirstN(seq, n) == IF Len(seq) > n THEN SubSeq(seq, 1, n) ELSE seq
LastN(seq, n) == IF Len(seq) > n THEN SubSeq(seq, Len(seq) - n + 1, Len(seq)) ELSE seq

Closes(buf) == [i \in 1..Len(buf) |-> buf[i].close]
Mean(ints) == Rat(IntSum(ints), Len(ints))

\* _smooth_price: linear-weighted average of the last smooth_period closes
SmoothPrice(buf) ==
    LET prices == LastN(Closes(buf), smooth_period)
        n == Len(prices)
    IN  Rat(IntSum([i \in 1..n |-> i * prices[i]]), IntSum([i \in 1..n |-> i]))

\* _calculate_atr, lines 115-123, for the (negative) loop index i
TrueRange(buf, i) ==
    LET high == PyIdx(buf, i).high
        low == PyIdx(buf, i).low
        prev_close == IF i > 0 THEN PyIdx(buf, i - 1).close ELSE low
    IN  Max2(high - low, Max2(Abs(high - prev_close), Abs(low - prev_close)))

CalculateAtr(buf) ==
    IF Len(buf) < atr_period THEN Zero
    ELSE Mean([k \in 1..atr_period |-> TrueRange(buf, k - atr_period - 1)])

\* _find_period
FirstIndexOf(sm, v) == CHOOSE i \in 1..Len(sm) : sm[i] = v /\ \A j \in 1..(i - 1) : sm[j] # v

LastIndexOf(sm, v) == CHOOSE i \in 1..Len(sm) : sm[i] = v /\ \A j \in (i + 1)..Len(sm) : sm[j] # v

FindPeriod(sm) ==
    IF Len(sm) < 2 THEN Len(sm) \div 2
    ELSE LET max_idx == LastIndexOf(sm, RatMaxSeq(sm))
             min_idx == LastIndexOf(sm, RatMinSeq(sm))
             period == Abs(max_idx - min_idx)
         IN  IF period > 1 THEN period ELSE Len(sm) \div 2

\* _calculate_prediction, lines 152-154
Amplitude(sm) == RatDiv(RatSub(RatMaxSeq(sm), RatMinSeq(sm)), RatOf(2))
MidpointNotHalved(sm) == RatAdd(RatMaxSeq(sm), RatMinSeq(sm))

Midpoint(sm) == RatDiv(RatAdd(RatMaxSeq(sm), RatMinSeq(sm)), RatOf(2))

\* The cosine of lines 162-170 is not rational.  It is a function of the
\* period, the forecast horizon and y/x = (last - midpoint) / amplitude; the
\* model lets it take any of these values in [-1, 1], the same value every
\* time it is asked for the same arguments (cos_table).
CosValues == {RatOf(-1), Zero, One}
CosKey(sm) ==
    << FindPeriod(sm), forecast, RatDiv(RatSub(Last(sm), Midpoint(sm)), Amplitude(sm)) >>

Predicted(sm, c) ==
    IF Amplitude(sm) = Zero THEN Midpoint(sm)
    ELSE RatAdd(Midpoint(sm), RatMul(Amplitude(sm), c))

IndGet(ind, key, default) == IF key \in DOMAIN ind THEN ind[key] ELSE default

\* _calculate_indicators, lines 93-102
BaseIndicators(buf) ==
    LET atr == CalculateAtr(buf)
        sma_20 == Mean(LastN(Closes(buf), SmaShort))
        sma_50 == IF Len(buf) >= SmaLong THEN Mean(LastN(Closes(buf), SmaLong)) ELSE sma_20
        trend_strength == RatAbs(RatSub(sma_20, sma_50))
    IN  ("atr" :> atr) @@ ("trend_strength" :> trend_strength)
            @@ ("is_ranging" :> RatLt(trend_strength, RatMul(atr, RatOf(2))))

\* _calculate_prediction with the cosine value c
PredictionIndicators(sm, c) ==
    ("predicted_price" :> Predicted(sm, c)) @@ ("dominant_period" :> FindPeriod(sm))
        @@ ("amplitude" :> Amplitude(sm))

\* _calculate_indicators on the updated buffer buf and smoothed series sm
CalculateIndicators(buf, sm) ==
    IF Len(sm) >= lookback
    THEN \E c \in CosValues :
            /\ IF Amplitude(sm) = Zero THEN c = Zero /\ cos_table' = cos_table
               ELSE IF CosKey(sm) \in DOMAIN cos_table
               THEN c = cos_table[CosKey(sm)] /\ cos_table' = cos_table
               ELSE cos_table' = (CosKey(sm) :> c) @@ cos_table
            /\ predicted_price' = Some(Predicted(sm, c))
            /\ indicators' = PredictionIndicators(sm, c) @@ BaseIndicators(buf) @@ indicators
    ELSE /\ indicators' = BaseIndicators(buf) @@ indicators
         /\ UNCHANGED << predicted_price, cos_table >>

\* update(candle, mtf_candle)
StrategyUpdate(candle, mtf_candle) ==
    /\ data_buffer' = LastN(Append(data_buffer, candle), required_candles + BufferMargin)
    /\ mtf_predicted_price' =
           IF IsNone(mtf_candle) THEN mtf_predicted_price ELSE Some(RatOf(Get(mtf_candle).close))
    /\ smoothed_prices' =
           IF Len(data_buffer') >= smooth_period
           THEN LastN(Append(smoothed_prices, SmoothPrice(data_buffer')), lookback)
           ELSE smoothed_prices
    /\ IF Len(data_buffer') >= required_candles
       THEN CalculateIndicators(data_buffer', smoothed_prices')
       ELSE UNCHANGED << indicators, predicted_price, cos_table >>
    /\ UNCHANGED << atr_history, highest_profit, strategy_class >>

\* get_signal, lines 222-225: stops and strength of an entry
RiskPriceMove(current_price) ==
    RatMul(RatDiv(RatOf(risk_cash), RatOf(stake)), current_price)

\* min(signal_strength / (atr * 2), 1.0); numpy gives inf for x / 0.0
Strength(signal_strength, atr) ==
    IF atr = Zero THEN One
    ELSE RatMin(RatDiv(signal_strength, RatMul(atr, RatOf(2))), One)

\* get_signal on the state (buf, pred, ind, pos, mtf)
GetSignalNoGate(buf, pred, ind, pos, mtf) ==
    IF Len(buf) < required_candles THEN Hold
    ELSE IF IsNone(pred) THEN Hold
    ELSE
      LET current_price == RatOf(Last(buf).close)
          predicted == Get(pred)
          atr == IndGet(ind, "atr", Zero)
          is_ranging == IndGet(ind, "is_ranging", FALSE)
          signal_strength == RatAbs(RatSub(current_price, predicted))
          min_signal_strength == RatMul(atr, atr_multiplier)
          mtf_set == mtf_enabled /\ ~IsNone(mtf) /\ Get(mtf) # Zero
          move == RiskPriceMove(current_price)
      IN  IF ~IsNone(pos) /\ Get(pos).type = "LONG"
          THEN (IF RatLt(predicted, current_price)
                THEN TradeSignal("CLOSE", One, None, None) ELSE Hold)
          ELSE IF ~IsNone(pos) /\ Get(pos).type = "SHORT"
          THEN (IF RatLt(current_price, predicted)
                THEN TradeSignal("CLOSE", One, None, None) ELSE Hold)
          ELSE IF RatLt(current_price, predicted)
          THEN (IF mtf_set /\ RatLe(Get(mtf), current_price) THEN Hold
                ELSE TradeSignal("BUY", Strength(signal_strength, atr),
                                 Some(RatSub(current_price, move)),
                                 Some(RatAdd(current_price, RatMul(move, RatOf(rr_ratio))))))
          ELSE IF RatLt(predicted, current_price)
          THEN (IF mtf_set /\ RatLe(current_price, Get(mtf)) THEN Hold
                ELSE TradeSignal("SELL", Strength(signal_strength, atr),
                                 Some(RatAdd(current_price, move)),
                                 Some(RatSub(current_price, RatMul(move, RatOf(rr_ratio))))))
          ELSE Hold

GetSignal(buf, pred, ind, pos, mtf) ==
    IF Len(buf) < required_candles THEN Hold
    ELSE IF IsNone(pred) THEN Hold
    ELSE
      LET current_price == RatOf(Last(buf).close)
          predicted == Get(pred)
          atr == IndGet(ind, "atr", Zero)
          is_ranging == IndGet(ind, "is_ranging", FALSE)
          signal_strength == RatAbs(RatSub(current_price, predicted))
          min_signal_strength == RatMul(atr, atr_multiplier)
          mtf_set == mtf_enabled /\ ~IsNone(mtf) /\ Get(mtf) # Zero
          move == RiskPriceMove(current_price)
      IN  IF ~is_ranging \/ RatLt(signal_strength, min_signal_strength) THEN Hold
          ELSE IF ~IsNone(pos) /\ Get(pos).type = "LONG"
          THEN (IF RatLt(predicted, current_price)
                THEN TradeSignal("CLOSE", One, None, None) ELSE Hold)
          ELSE IF ~IsNone(pos) /\ Get(pos).type = "SHORT"
          THEN (IF RatLt(current_price, predicted)
                THEN TradeSignal("CLOSE", One, None, None) ELSE Hold)
          ELSE IF RatLt(current_price, predicted)
          THEN (IF mtf_set /\ RatLe(Get(mtf), current_price) THEN Hold
                ELSE TradeSignal("BUY", Strength(signal_strength, atr),
                                 Some(RatSub(current_price, move)),
                                 Some(RatAdd(current_price, RatMul(move, RatOf(rr_ratio))))))
          ELSE IF RatLt(predicted, current_price)
          THEN (IF mtf_set /\ RatLe(current_price, Get(mtf)) THEN Hold
                ELSE TradeSignal("SELL", Strength(signal_strength, atr),
                                 Some(RatAdd(current_price, move)),
                                 Some(RatSub(current_price, RatMul(move, RatOf(rr_ratio))))))
          ELSE Hold

\* reset (TradingStrategy.reset and FourierStrategy.reset)
StrategyResetKeepsBuffer ==
    /\ position' = None
    /\ indicators' = << >>
    /\ smoothed_prices' = << >>
    /\ predicted_price' = None
    /\ mtf_predicted_price' = None
    /\ UNCHANGED << data_buffer, atr_history, highest_profit, strategy_class >>

StrategyReset ==
    /\ data_buffer' = << >>
    /\ indicators' = << >>
    /\ position' = None
    /\ smoothed_prices' = << >>
    /\ predicted_price' = None
    /\ mtf_predicted_price' = None
    /\ UNCHANGED << atr_history, highest_profit, strategy_class >>

-----------------------------------------------------------------------------
(* Backtester.run driving a FourierStrategy                                *)

\* the candle feed: FlatRows identical warm-up candles, then up to MaxTail
\* candles chosen freely among TailKinds
FlatRows == 20
MaxTail == 4
FlatKind == [close |-> 100, spread |-> 0, ok |-> TRUE]
TailKinds == { [close |-> 97, spread |-> 2, ok |-> TRUE],
               [close |-> 103, spread |-> 2, ok |-> TRUE] }

FourierDFs ==
    { MkDF([i \in 1..FlatRows |-> FlatKind] \o tail) : tail \in SeqsUpTo(TailKinds, MaxTail) }

\* run is called (again) on a Backtester holding a FourierStrategy
FourierRunStart ==
    /\ UNCHANGED << profit_factor, liveVars >>
    /\ bt_pc \in {"ready", "done"}
    /\ runs < MaxRuns
    /\ bt_pc' = "loop"
    /\ runs' = runs + 1
    /\ idx' = 0
    /\ StrategyReset
    /\ ResetLedger
    /\ prev_result' = result
    /\ result' = None
    /\ signal' = None
    /\ UNCHANGED << df, initial_balance, cos_table >>

\* one iteration of the for-loop: update, get_signal, dispatch, equity point
FourierProcessCandle ==
    /\ UNCHANGED << profit_factor, liveVars >>
    /\ bt_pc = "loop"
    /\ idx < Len(df)
    /\ RowOk(df[idx + 1])
    /\ StrategyUpdate(Candle(df[idx + 1]), None)
    /\ LET sig == GetSignal(data_buffer', predicted_price', indicators', position,
                            mtf_predicted_price')
       IN  /\ signal' = Some(sig)
           /\ ProcessSignal(Candle(df[idx + 1]), sig)
    /\ idx' = idx + 1
    /\ UNCHANGED << bt_pc, df, runs, initial_balance, result, prev_result >>

InitFourier ==
    /\ df \in FourierDFs
    /\ InitBacktester
    /\ initial_balance = 1000
    /\ InitStrategy
    /\ NoProfitFactor
    /\ NoEngine

NextFourier ==
    \/ FourierRunStart
    \/ FourierProcessCandle
    \/ RunFinish

SpecFourier == InitFourier /\ [][NextFourier]_vars

-----------------------------------------------------------------------------
(* A FourierStrategy driven directly: update / get_signal / set_position /  *)
(* reset in any order                                                       *)

PositionsToSet ==
    { None,
      Some([type |-> "LONG", entry_price |-> 100, entry_time |-> 1,
            stop_loss |-> None, take_profit |-> None]),
      Some([type |-> "SHORT", entry_price |-> 100, entry_time |-> 1,
            stop_loss |-> None, take_profit |-> None]) }

\* the caller feeds the next candle of its feed
DoUpdate ==
    /\ UNCHANGED << profit_factor, liveVars >>
    /\ Len(data_buffer) < Len(df)
    /\ RowOk(df[Len(data_buffer) + 1])
    /\ StrategyUpdate(Candle(df[Len(data_buffer) + 1]), None)
    /\ signal' = None
    /\ UNCHANGED << btVars, position >>

DoGetSignal ==
    /\ UNCHANGED << profit_factor, liveVars >>
    /\ data_buffer # << >>
    /\ signal' = Some(GetSignal(data_buffer, predicted_price, indicators, position,
                                mtf_predicted_price))
    /\ UNCHANGED << btVars, position, stratVars, cos_table >>

DoSetPosition ==
    /\ UNCHANGED << profit_factor, liveVars >>
    /\ \E p \in PositionsToSet : p # position /\ position' = p
    /\ signal' = None
    /\ UNCHANGED << btVars, stratVars, cos_table >>

DoReset ==
    /\ UNCHANGED << profit_factor, liveVars >>
    /\ data_buffer # << >>
    /\ StrategyReset
    /\ signal' = None
    /\ UNCHANGED << btVars, cos_table >>

InitStrategyAlone ==
    /\ df \in FourierDFs
    /\ InitBacktester
    /\ initial_balance = 1000
    /\ InitStrategy
    /\ NoProfitFactor
    /\ NoEngine

NextStrategy ==
    \/ DoUpdate
    \/ DoGetSignal
    \/ DoSetPosition
    \/ DoReset

SpecStrategy == InitStrategyAlone /\ [][NextStrategy]_vars

-----------------------------------------------------------------------------
(* Claims about reset and warm-up                                           *)

AsConstructed ==
    /\ data_buffer = << >>
    /\ smoothed_prices = << >>
    /\ indicators = << >>
    /\ predicted_price = None
    /\ mtf_predicted_price = None
    /\ position = None
    /\ current_trade = None
    /\ closed_trades = << >>
    /\ running_pnl = Zero
    /\ equity_curve = << RatOf(initial_balance) >>
    /\ timestamps = << >>

C6_HoldBeforeWarmup ==
    (~IsNone(signal) /\ Len(data_buffer) < Max2(lookback, atr_period) + WarmupMargin)
        => Get(signal).signal = "HOLD" /\ Get(signal).strength = Zero

\* C6 witness: get_signal was called one candle before the warm-up is
\* complete, with a position set and after candles of different prices.
C6_Witness ==
    /\ ~IsNone(signal)
    /\ Len(data_buffer) = Max2(lookback, atr_period) + WarmupMargin - 1
    /\ ~IsNone(position)
    /\ \E i \in 1..Len(data_buffer) : data_buffer[i].close # data_buffer[1].close
    /\ Get(signal).signal = "HOLD"

-----------------------------------------------------------------------------
(* Profit factor, as each tool computes it from result.trades               *)

\* a profit factor is a float: finite, or float('inf')
Fin(r) == [inf |-> FALSE, val |-> r]
Inf == [inf |-> TRUE, val |-> Zero]

Tools == {"param_optimizer", "walk_forward_test", "test_risk_model",
          "run_optimization_sweep", "monthly_backtest_analysis"}

\* sum(t.pnl for t in trades if t.pnl and t.pnl > 0)
WinsSum(trades) == RatSum(SelectSeq(Pnls(trades), LAMBDA p : RatLt(Zero, p)))
\* abs(sum(t.pnl for t in trades if t.pnl and t.pnl < 0))
LossesSum(trades) == RatAbs(RatSum(SelectSeq(Pnls(trades), LAMBDA p : RatLt(p, Zero))))

\* tools/param_optimizer.py: wins_sum / losses_sum if losses_sum > 0 else 0
ParamOptimizerPF(trades) ==
    IF RatLt(Zero, LossesSum(trades))
    THEN Fin(RatDiv(WinsSum(trades), LossesSum(trades)))
    ELSE Fin(Zero)

\* tools/walk_forward_test.py: compute_metrics
WalkForwardPF(trades) ==
    IF trades = << >> THEN Fin(Zero)
    ELSE LET pnls == Pnls(trades)
             wins == SelectSeq(pnls, LAMBDA p : RatLt(Zero, p))
             losses == SelectSeq(pnls, LAMBDA p : RatLt(p, Zero))
         IN  IF losses # << >> THEN Fin(RatDiv(RatSum(wins), RatAbs(RatSum(losses))))
             ELSE IF wins # << >> THEN Inf
             ELSE Fin(Zero)

\* test_risk_model.py and run_optimization_sweep.py
SweepPF(trades) ==
    IF trades # << >>
    THEN (IF RatLt(Zero, LossesSum(trades))
          THEN Fin(RatDiv(WinsSum(trades), LossesSum(trades)))
          ELSE IF RatLt(Zero, WinsSum(trades)) THEN Inf ELSE Fin(Zero))
    ELSE Fin(Zero)

\* tools/monthly_backtest_analysis.py
MonthlyPF(trades) ==
    LET pnls == Pnls(trades)
        wins == SelectSeq(pnls, LAMBDA p : RatLt(Zero, p))
        losses == SelectSeq(pnls, LAMBDA p : RatLt(p, Zero))
        total_wins == IF wins # << >> THEN RatSum(wins) ELSE Zero
        total_losses == IF losses # << >> THEN RatAbs(RatSum(losses)) ELSE Zero
    IN  IF RatLt(Zero, total_losses) THEN Fin(RatDiv(total_wins, total_losses))
        ELSE IF RatLt(Zero, total_wins) THEN Inf ELSE Fin(Zero)

\* result.trades of a finished backtest: up to MaxTrades closed trades
MaxTrades == 3
ClosedTradeKinds ==
    { TradeClose(NewTrade(1, 100, side, stake_per_trade), 2, exit, "Signal") :
        side \in {"BUY", "SELL"}, exit \in {97, 100, 103} }

ToolComputes(tool, pf) ==
    /\ bt_pc = "done"
    /\ IsNone(profit_factor[tool])
    /\ profit_factor' = [profit_factor EXCEPT ![tool] = Some(pf)]
    /\ UNCHANGED << btVars, signal, position, stratVars, cos_table, liveVars >>

ParamOptimizer == ToolComputes("param_optimizer", ParamOptimizerPF(closed_trades))
WalkForwardTest == ToolComputes("walk_forward_test", WalkForwardPF(closed_trades))
TestRiskModel == ToolComputes("test_risk_model", SweepPF(closed_trades))
RunOptimizationSweep == ToolComputes("run_optimization_sweep", SweepPF(closed_trades))
MonthlyBacktestAnalysis == ToolComputes("monthly_backtest_analysis", MonthlyPF(closed_trades))

InitTools ==
    /\ df = << >>
    /\ InitBacktester
    /\ initial_balance = 1000
    /\ InitStrategy
    /\ NoEngine
    /\ profit_factor = [tool \in Tools |-> None]

\* the backtest the tool ran has returned with some trades
BacktestReturns ==
    /\ bt_pc = "ready"
    /\ bt_pc' = "done"
    /\ closed_trades' \in SeqsUpTo(ClosedTradeKinds, MaxTrades)
    /\ UNCHANGED << df, idx, runs, initial_balance, current_trade, equity_curve,
                    timestamps, running_pnl, result, prev_result, entered, signal,
                    position, stratVars, cos_table, profit_factor, liveVars >>

NextTools ==
    \/ BacktestReturns
    \/ ParamOptimizer
    \/ WalkForwardTest
    \/ TestRiskModel
    \/ RunOptimizationSweep
    \/ MonthlyBacktestAnalysis

SpecTools == InitTools /\ [][NextTools]_vars

GrossWins(trades) == RatSum(SelectSeq(Pnls(trades), LAMBDA p : RatLt(Zero, p)))
GrossLosses(trades) == RatAbs(RatSum(SelectSeq(Pnls(trades), LAMBDA p : RatLt(p, Zero))))

\* C9: every profit factor computed from a closed-trade list is gross wins /
\* gross losses when there are losses, +infinity when there are wins and no
\* losses, and 0 when there are neither wins nor losses.
C9_ProfitFactor ==
    \A tool \in DOMAIN profit_factor :
        ~IsNone(profit_factor[tool]) =>
            LET pf == Get(profit_factor[tool])
                wins == GrossWins(closed_trades)
                losses == GrossLosses(closed_trades)
            IN  /\ RatLt(Zero, losses) => pf = Fin(RatDiv(wins, losses))
                /\ (losses = Zero /\ RatLt(Zero, wins)) => pf = Inf
                /\ (losses = Zero /\ wins = Zero) => pf = Fin(Zero)

-----------------------------------------------------------------------------
(* engine.py / client.py: the live orchestrator                             *)
(*                                                                          *)
(* Two asyncio tasks run on one event loop: the task that called            *)
(* DerivTradingEngine.start(), and DerivAPIClient._receiver(), which reads  *)
(* the websocket and awaits the candle callbacks inline.  Time is counted   *)
(* in units of proposal_min_interval_sec (1.5 s); asyncio.wait_for's        *)
(* timeout of 15 s is 10 units.  The broker answers at once and the loop    *)
(* runs whatever is ready before time passes.                               *)

proposal_min_interval == 1
request_timeout == 10
MaxCandles == 2          \* ohlc updates the broker pushes
MaxClock == MaxCandles * (proposal_min_interval + request_timeout) + 2

nonLiveVars == << btVars, signal, position, stratVars, cos_table, profit_factor >>
\* the same without the signal, which on_candle obtains from the strategy
nonEngineVars == << btVars, position, stratVars, cos_table, profit_factor >>

\* _pending: req_id -> future, as the set of << req_id, state of the future >>:
\* "pending" until set_result, then "ok", or "error" when the response it
\* holds has an 'error' key
InPending(req_id) == \E p \in client.pending : p[1] = req_id
FutDone(req_id) == \E p \in client.pending : p[1] = req_id /\ p[2] # "pending"
FutError(req_id) == << req_id, "error" >> \in client.pending
PendingPop(req_id) == { p \in client.pending : p[1] # req_id }

\* fut.set_result(data)
SetResult(m) == << m.req_id, IF m.error THEN "error" ELSE "ok" >>

\* send_request up to its await: take a req_id, register the future, send
SendRequest(c, out, kind) ==
    [client |-> [c EXCEPT !.next_req_id = c.next_req_id + 1,
                          !.pending = c.pending \cup {<< c.next_req_id, "pending" >>}],
     out |-> Append(out, [kind |-> kind, req_id |-> c.next_req_id, error |-> FALSE]),
     req_id |-> c.next_req_id]

\* start(): connect (the receiver task is created), then authorize if a token
\* was given, else go on to subscribe_candles
Start ==
    /\ task.main = "new"
    /\ LET kind == IF client.api_token THEN "authorize" ELSE "ticks_history"
           c == IF client.api_token THEN client
                ELSE [client EXCEPT !.candle_callbacks = TRUE]
           s == SendRequest(c, ws.out, kind)
       IN  /\ client' = s.client
           /\ ws' = [ws EXCEPT !.out = s.out]
           /\ task' = [task EXCEPT !.main = IF client.api_token THEN "authorize"
                                            ELSE "subscribe",
                                   !.main_req = s.req_id,
                                   !.main_deadline = clock + request_timeout,
                                   !.recv = "recv"]
    /\ UNCHANGED << engine, broker, clock, nonLiveVars >>

\* the rest of start() after each of its requests has returned
StartResumes ==
    LET popped == [client EXCEPT !.pending = PendingPop(task.main_req)]
    IN  CASE task.main = "authorize" /\ FutError(task.main_req) ->
               /\ client' = popped
               /\ task' = [task EXCEPT !.main = "failed", !.main_req = 0]
               /\ UNCHANGED << engine, ws >>
          [] task.main = "authorize" ->
               LET s == SendRequest([popped EXCEPT !.authorized = TRUE], ws.out, "balance")
               IN  /\ client' = s.client
                   /\ ws' = [ws EXCEPT !.out = s.out]
                   /\ task' = [task EXCEPT !.main = "balance", !.main_req = s.req_id,
                                           !.main_deadline = clock + request_timeout]
                   /\ UNCHANGED engine
          [] task.main = "balance" ->
               LET s == SendRequest([popped EXCEPT !.candle_callbacks = TRUE], ws.out,
                                    "ticks_history")
               IN  /\ client' = s.client
                   /\ ws' = [ws EXCEPT !.out = s.out]
                   /\ task' = [task EXCEPT !.main = "subscribe", !.main_req = s.req_id,
                                           !.main_deadline = clock + request_timeout]
                   /\ UNCHANGED engine
          [] OTHER ->
               /\ client' = popped
               /\ engine' = [engine EXCEPT !.running = TRUE]
               /\ task' = [task EXCEPT !.main = "started", !.main_req = 0]
               /\ UNCHANGED ws

\* engine.buy_contract from the throttle on: record the time, ask for a quote.
\* On a closed connection ws.send raises after the future was registered;
\* buy_contract logs the exception and the callback returns.
RequestProposal(w, contract_type) ==
    LET s == SendRequest(client, w.out, "proposal")
    IN  /\ engine' = [engine EXCEPT !.last_proposal_ts = clock]
        /\ client' = s.client
        /\ IF w.closed
           THEN /\ ws' = w
                /\ task' = [task EXCEPT !.recv = "recv", !.recv_req = 0, !.contract = ""]
           ELSE /\ ws' = [w EXCEPT !.out = s.out]
                /\ task' = [task EXCEPT !.recv = "proposal", !.recv_req = s.req_id,
                                        !.deadline = clock + request_timeout,
                                        !.contract = contract_type]

\* the rest of engine.buy_contract after each of its requests has returned
\* if client.buy_contract did not raise on an error response
BuyContractResumesNoRaise ==
    LET popped == [client EXCEPT !.pending = PendingPop(task.recv_req)]
    IN  IF task.recv = "proposal"
        THEN LET s == SendRequest(popped, ws.out, "buy")
             IN  /\ client' = s.client
                 /\ ws' = [ws EXCEPT !.out = s.out]
                 /\ task' = [task EXCEPT !.recv = "buy", !.recv_req = s.req_id,
                                         !.deadline = clock + request_timeout]
                 /\ UNCHANGED engine
        ELSE LET pos == [type |-> task.contract]
             IN  /\ client' = popped
                 /\ engine' = [engine EXCEPT !.current_position = Some(pos),
                                             !.total_trades = engine.total_trades + 1,
                                             !.trade_history = Append(engine.trade_history, pos)]
                 /\ task' = [task EXCEPT !.recv = "recv", !.recv_req = 0, !.contract = ""]
                 /\ UNCHANGED ws

\* the rest of engine.buy_contract after each of its requests has returned:
\* a quote with an 'error' key makes it return, a rejected order makes
\* client.buy_contract raise, which buy_contract catches and logs
BuyContractResumes ==
    LET popped == [client EXCEPT !.pending = PendingPop(task.recv_req)]
    IN  IF FutError(task.recv_req)
        THEN /\ client' = popped
             /\ task' = [task EXCEPT !.recv = "recv", !.recv_req = 0, !.contract = ""]
             /\ UNCHANGED << engine, ws >>
        ELSE IF task.recv = "proposal"
        THEN LET s == SendRequest(popped, ws.out, "buy")
             IN  /\ client' = s.client
                 /\ ws' = [ws EXCEPT !.out = s.out]
                 /\ task' = [task EXCEPT !.recv = "buy", !.recv_req = s.req_id,
                                         !.deadline = clock + request_timeout]
                 /\ UNCHANGED engine
        ELSE LET pos == [type |-> task.contract]
             IN  /\ client' = popped
                 /\ engine' = [engine EXCEPT !.current_position = Some(pos),
                                             !.total_trades = engine.total_trades + 1,
                                             !.trade_history = Append(engine.trade_history, pos)]
                 /\ task' = [task EXCEPT !.recv = "recv", !.recv_req = 0, !.contract = ""]
                 /\ UNCHANGED ws

\* await asyncio.wait_for(fut, timeout=15) returns the response
SendRequestReturns ==
    /\ \/ /\ task.main \in {"authorize", "balance", "subscribe"}
          /\ FutDone(task.main_req)
          /\ StartResumes
       \/ /\ task.recv \in {"proposal", "buy"}
          /\ FutDone(task.recv_req)
          /\ BuyContractResumes
    /\ UNCHANGED << broker, clock, nonLiveVars >>

\* asyncio.wait_for gives up: TimeoutError leaves send_request (the finally
\* pops the future); start() lets it escape, engine.buy_contract logs it
WaitForTimeout ==
    /\ \/ /\ task.main \in {"authorize", "balance", "subscribe"}
          /\ ~FutDone(task.main_req)
          /\ clock >= task.main_deadline
          /\ client' = [client EXCEPT !.pending = PendingPop(task.main_req)]
          /\ task' = [task EXCEPT !.main = "failed", !.main_req = 0]
       \/ /\ task.recv \in {"proposal", "buy"}
          /\ ~FutDone(task.recv_req)
          /\ clock >= task.deadline
          /\ client' = [client EXCEPT !.pending = PendingPop(task.recv_req)]
          /\ task' = [task EXCEPT !.recv = "recv", !.recv_req = 0, !.contract = ""]
    /\ UNCHANGED << engine, ws, broker, clock, nonLiveVars >>

\* engine.buy_contract up to its first await
EngineBuyContractNoGate(w, contract_type) ==
    IF clock - engine.last_proposal_ts < proposal_min_interval
    THEN /\ task' = [task EXCEPT !.recv = "sleep",
                                 !.deadline = engine.last_proposal_ts + proposal_min_interval,
                                 !.contract = contract_type]
         /\ ws' = w
         /\ UNCHANGED << engine, client >>
    ELSE RequestProposal(w, contract_type)

EngineBuyContractNoThrottle(w, contract_type) ==
    IF engine.demo \/ ~client.authorized
    THEN ws' = w /\ UNCHANGED << engine, client, task >>
    ELSE RequestProposal(w, contract_type)

EngineBuyContract(w, contract_type) ==
    IF engine.demo \/ ~client.authorized
    THEN ws' = w /\ UNCHANGED << engine, client, task >>
    ELSE IF clock - engine.last_proposal_ts < proposal_min_interval
    THEN /\ task' = [task EXCEPT !.recv = "sleep",
                                 !.deadline = engine.last_proposal_ts + proposal_min_interval,
                                 !.contract = contract_type]
         /\ ws' = w
         /\ UNCHANGED << engine, client >>
    ELSE RequestProposal(w, contract_type)

ExecuteSignal(w, sig) ==
    IF ~IsNone(engine.current_position) /\ sig = "CLOSE"
    THEN /\ engine' = [engine EXCEPT !.current_position = None]
         /\ ws' = w
         /\ UNCHANGED << client, task >>
    ELSE IF ~IsNone(engine.current_position) \/ sig \notin {"BUY", "SELL"}
    THEN ws' = w /\ UNCHANGED << engine, client, task >>
    ELSE EngineBuyContract(w, IF sig = "BUY" THEN "CALL" ELSE "PUT")

\* on_candle; the strategy is any TradingStrategy, its update and get_signal
\* are the choice of sig (a raise inside them is caught and ends like HOLD)
OnCandle(w) ==
    IF ~engine.running
    THEN ws' = w /\ UNCHANGED << engine, client, task, signal >>
    ELSE \E sig \in AnySignal :
            /\ signal' = Some(sig)
            /\ ExecuteSignal(w, sig.signal)

\* a receiver that would schedule the callbacks instead of awaiting them: it
\* reads the next message while a callback is suspended
ReceiverRecvWithoutAwait ==
    /\ task.recv \in {"recv", "sleep", "proposal", "buy"}
    /\ ws.inq # << >>
    /\ LET m == Head(ws.inq)
           w == [ws EXCEPT !.inq = Tail(ws.inq)]
       IN  IF m.req_id # 0 /\ InPending(m.req_id)
           THEN /\ client' = [client EXCEPT !.pending =
                                  PendingPop(m.req_id) \cup {SetResult(m)}]
                /\ ws' = w
                /\ UNCHANGED << engine, task, signal >>
           ELSE IF m.kind = "ohlc" /\ client.candle_callbacks
           THEN OnCandle(w)
           ELSE ws' = w /\ UNCHANGED << engine, client, task, signal >>
    /\ UNCHANGED << broker, clock, nonEngineVars >>

\* one turn of the receiver loop: route the message to its pending request,
\* or await the candle callbacks on it, or drop it
ReceiverRecv ==
    /\ task.recv = "recv"
    /\ ws.inq # << >>
    /\ LET m == Head(ws.inq)
           w == [ws EXCEPT !.inq = Tail(ws.inq)]
       IN  IF m.req_id # 0 /\ InPending(m.req_id)
           THEN /\ client' = [client EXCEPT !.pending =
                                  PendingPop(m.req_id) \cup {SetResult(m)}]
                /\ ws' = w
                /\ UNCHANGED << engine, task, signal >>
           ELSE IF m.kind = "ohlc" /\ client.candle_callbacks
           THEN OnCandle(w)
           ELSE ws' = w /\ UNCHANGED << engine, client, task, signal >>
    /\ UNCHANGED << broker, clock, nonEngineVars >>

\* asyncio.sleep of the throttle is over
SleepEnds ==
    /\ task.recv = "sleep"
    /\ clock >= task.deadline
    /\ RequestProposal(ws, task.contract)
    /\ UNCHANGED << broker, clock, nonLiveVars >>

\* the broker answers the oldest request it has not answered
BrokerAnswers ==
    /\ ws.out # << >>
    /\ ~ws.closed
    /\ LET r == Head(ws.out)
       IN  /\ ws' = [ws EXCEPT !.out = Tail(ws.out), !.inq = Append(ws.inq, r)]
           /\ broker' = [broker EXCEPT
                  !.subscribed = @ \/ r.kind = "ticks_history",
                  !.proposals = @ + (IF r.kind = "proposal" THEN 1 ELSE 0),
                  !.buys = @ + (IF r.kind = "buy" THEN 1 ELSE 0)]
    /\ UNCHANGED << engine, client, task, clock, nonLiveVars >>

\* the broker answers the oldest request with an error response: a failed
\* authorization, a quote error, a rejected order
BrokerRejects ==
    /\ ws.out # << >>
    /\ ~ws.closed
    /\ LET r == Head(ws.out)
       IN  /\ r.kind \in {"authorize", "proposal", "buy"}
           /\ ws' = [ws EXCEPT !.out = Tail(ws.out),
                               !.inq = Append(ws.inq, [r EXCEPT !.error = TRUE])]
           /\ broker' = [broker EXCEPT !.rejected = @ \cup {r.req_id}]
    /\ UNCHANGED << engine, client, task, clock, nonLiveVars >>

\* the broker pushes an ohlc update of the subscribed candle stream
BrokerPushes ==
    /\ broker.subscribed
    /\ ~ws.closed
    /\ broker.pushed < MaxCandles
    /\ ws' = [ws EXCEPT !.inq = Append(@, [kind |-> "ohlc", req_id |-> 0, error |-> FALSE])]
    /\ broker' = [broker EXCEPT !.pushed = @ + 1]
    /\ UNCHANGED << engine, client, task, clock, nonLiveVars >>

\* time passes when neither the broker nor a task has something to do now
TimePasses ==
    /\ clock < MaxClock
    /\ ws.out = << >>
    /\ ~(task.recv = "recv" /\ ws.inq # << >>)
    /\ task.main \in {"authorize", "balance", "subscribe"} =>
          ~FutDone(task.main_req) /\ clock < task.main_deadline
    /\ task.recv \in {"proposal", "buy"} => ~FutDone(task.recv_req)
    /\ task.recv \in {"sleep", "proposal", "buy"} => clock < task.deadline
    /\ clock' = clock + 1
    /\ UNCHANGED << engine, client, ws, task, broker, nonLiveVars >>

\* stop(): self.running = False
StoppedEngineStillRunning(e) == e

StoppedEngine(e) == [e EXCEPT !.running = FALSE]

\* client.close(): `if self.ws:` closes the socket only when connect() set it
CloseResult(has_ws) == IF has_ws THEN "closed" ELSE "skipped"

\* stop() up to `await self.ws.close()`.  The caller is the task that called
\* start(); if it was cancelled inside start(), send_request's finally has
\* popped its future.  connect() sets ws and creates the receiver together.
StopBegins ==
    /\ task.main # "closing"
    /\ engine' = StoppedEngine(engine)
    /\ client' = IF task.main \in {"authorize", "balance", "subscribe"}
                 THEN [client EXCEPT !.pending = PendingPop(task.main_req)]
                 ELSE client
    /\ LET res == CloseResult(task.recv # "off")
       IN  IF res = "closed"
           THEN /\ ws' = [ws EXCEPT !.closed = TRUE]
                /\ task' = [task EXCEPT !.main = "closing", !.main_req = 0]
           ELSE /\ UNCHANGED ws
                /\ task' = [task EXCEPT !.main = IF res = "skipped" THEN "stopped"
                                                 ELSE "stop_raised",
                                        !.main_req = 0]
    /\ UNCHANGED << broker, clock, nonLiveVars >>

\* the rest of stop(): the receiver task is cancelled (CancelledError ends the
\* callback it is suspended in; send_request's finally pops its future),
\* print_stats logs
StopReturns ==
    /\ task.main = "closing"
    /\ task' = [task EXCEPT !.main = "stopped",
                            !.recv = IF @ = "done" THEN "done" ELSE "cancelled",
                            !.recv_req = 0,
                            !.contract = ""]
    /\ client' = IF task.recv \in {"proposal", "buy"}
                 THEN [client EXCEPT !.pending = PendingPop(task.recv_req)]
                 ELSE client
    /\ UNCHANGED << engine, ws, broker, clock, nonLiveVars >>

\* ws.recv() on the closed connection raises; the receiver logs it and ends
ReceiverConnectionClosed ==
    /\ task.recv = "recv"
    /\ ws.closed
    /\ ws.inq = << >>
    /\ task' = [task EXCEPT !.recv = "done"]
    /\ UNCHANGED << engine, client, ws, broker, clock, nonLiveVars >>

\* a candle is handed to on_candle after stop() has returned
DeliverCandle ==
    /\ task.main = "stopped"
    /\ OnCandle(ws)
    /\ UNCHANGED << broker, clock, nonEngineVars >>

InitLive ==
    /\ df = << >>
    /\ InitBacktester
    /\ initial_balance = 1000
    /\ InitStrategy
    /\ NoProfitFactor
    /\ engine \in [current_position : {None}, trade_history : {<< >>}, running : {FALSE},
                   demo : BOOLEAN, last_proposal_ts : {0}, total_trades : {0}]
    /\ client \in [api_token : BOOLEAN, authorized : {FALSE}, pending : {{}},
                   next_req_id : {1}, candle_callbacks : {FALSE}]
    /\ ws = [out |-> << >>, inq |-> << >>, closed |-> FALSE]
    /\ task = [main |-> "new", main_req |-> 0, main_deadline |-> 0,
               recv |-> "off", recv_req |-> 0, deadline |-> 0, contract |-> ""]
    /\ broker = [subscribed |-> FALSE, pushed |-> 0, proposals |-> 0, buys |-> 0,
                 rejected |-> {}]
    /\ clock = 0

NextLive ==
    \/ Start
    \/ SendRequestReturns
    \/ WaitForTimeout
    \/ ReceiverRecv
    \/ SleepEnds
    \/ BrokerAnswers
    \/ BrokerPushes
    \/ TimePasses
    \/ StopBegins
    \/ StopReturns
    \/ ReceiverConnectionClosed
    \/ DeliverCandle

\* every task and the broker go on while they can; nobody has to call stop()
SpecLive ==
    /\ InitLive
    /\ [][NextLive]_vars
    /\ WF_vars(Start) /\ WF_vars(SendRequestReturns) /\ WF_vars(WaitForTimeout)
    /\ WF_vars(ReceiverRecv) /\ WF_vars(SleepEnds) /\ WF_vars(BrokerAnswers)
    /\ WF_vars(TimePasses) /\ WF_vars(StopReturns)

\* C10: authorized and not in demo mode, once the candle callback has passed
\* the gate of buy_contract for a BUY or SELL signal with no position open,
\* the order is eventually submitted and the position recorded (unless
\* stop() is called first).
C10_QuoteThenOrder ==
    \A n \in 0..(MaxCandles - 1) :
        (task.recv \in {"sleep", "proposal"} /\ engine.total_trades = n)
            ~> \/ /\ engine.total_trades = n + 1
                  /\ broker.buys >= n + 1
                  /\ ~IsNone(engine.current_position)
               \/ ws.closed


EntrySignalSeen == ~IsNone(signal) /\ Get(signal).signal \in {"BUY", "SELL"}

\* C11: in demo mode, or while the client is not authorized, no quote request
\* and no order has gone to the broker or is on its way, the callback never
\* waits in buy_contract, no position is recorded and total_trades is 0.
C11_DemoNeverTrades ==
    (engine.demo \/ ~client.authorized) =>
        /\ broker.proposals = 0
        /\ broker.buys = 0
        /\ \A i \in 1..Len(ws.out) : ws.out[i].kind \notin {"proposal", "buy"}
        /\ task.recv \notin {"sleep", "proposal", "buy"}
        /\ IsNone(engine.current_position)
        /\ engine.total_trades = 0
        /\ engine.trade_history = << >>

\* C11 witness: a started, authorized engine in demo mode has processed a
\* candle on which the strategy returned BUY or SELL.
C11_Witness ==
    /\ engine.demo
    /\ client.authorized
    /\ engine.running
    /\ EntrySignalSeen
    /\ task.recv = "recv"

\* C11 witness: the same for an engine started without a token.
C11_WitnessUnauthorized ==
    /\ ~engine.demo
    /\ ~client.authorized
    /\ engine.running
    /\ EntrySignalSeen
    /\ task.recv = "recv"


\* a step in which get_proposal sends its request
ProposalIssued == task.recv # "proposal" /\ task'.recv = "proposal"

C12_WitnessSleep == task.recv = "sleep" /\ clock < task.deadline


\* C13: stop() never raises, whatever the engine was doing; once it has
\* returned, running is false, the connection (if there was one) is closed
\* and the receiver is gone; and from then on no step, a candle handed to
\* on_candle included, updates the strategy, sends a request or changes the
\* engine.
C13_StopSafe ==
    /\ [](task.main # "stop_raised")
    /\ [](task.main = "stopped" =>
            /\ ~engine.running
            /\ task.recv \in {"off", "done", "cancelled"}
            /\ task.recv # "off" => ws.closed)
    /\ [][(task.main = "stopped" /\ task'.main = "stopped") =>
            /\ signal' = signal
            /\ ws' = ws
            /\ engine' = engine
            /\ client' = client
            /\ broker' = broker]_vars

\* C13 witness: stop() was called while a candle callback was suspended
\* (in the throttle's sleep or waiting for the quote) and has not returned yet.
C13_WitnessMidCallback ==
    /\ task.main = "closing"
    /\ task.recv \in {"sleep", "proposal"}

\* C13 witness: stop() has returned after the engine had asked for a quote;
\* the receiver was cancelled.
C13_Witness ==
    /\ task.main = "stopped"
    /\ task.recv = "cancelled"
    /\ broker.proposals >= 1
    /\ EntrySignalSeen

\* C13 witness: stop() has returned on an engine that was never started.
C13_WitnessBeforeStart ==
    /\ task.main = "stopped"
    /\ task.recv = "off"

-----------------------------------------------------------------------------
(* A FourierStrategy fed with candles of one constant close                 *)

\* the feed: FlatRows candles of close 100 with one spread between high and
\* low, then up to MaxTail candles of close 100 with freely chosen spreads
ConstantSpreads == {0, 2, 8}
ConstantKind(s) == [close |-> 100, spread |-> s, ok |-> TRUE]

ConstantCloseDFs ==
    { MkDF([i \in 1..FlatRows |-> ConstantKind(s)] \o tail) :
        s \in ConstantSpreads,
        tail \in SeqsUpTo({ConstantKind(t) : t \in ConstantSpreads}, MaxTail) }

InitConstantClose ==
    /\ df \in ConstantCloseDFs
    /\ InitBacktester
    /\ initial_balance = 1000
    /\ InitStrategy
    /\ NoProfitFactor
    /\ NoEngine

SpecConstantClose == InitConstantClose /\ [][NextStrategy]_vars

\* C14: on candles whose close is constant, with any highs and lows, no
\* get_signal after any prefix returns BUY or SELL: the amplitude is 0 and
\* the predicted price equals the current price.
C14_ConstantCloseNoEntry ==
    /\ ~IsNone(signal) => Get(signal).signal \notin {"BUY", "SELL"}
    /\ ~IsNone(predicted_price) =>
           /\ indicators["amplitude"] = Zero
           /\ Get(predicted_price) = RatOf(Last(data_buffer).close)

\* C14 witness: get_signal was called after the warm-up, with no position
\* set, a ranging market, a positive ATR and a prediction equal to the close.
C14_Witness ==
    /\ ~IsNone(signal)
    /\ Len(data_buffer) > required_candles
    /\ IsNone(position)
    /\ ~IsNone(predicted_price)
    /\ indicators["is_ranging"]
    /\ RatLt(Zero, indicators["atr"])
    /\ \E i \in 1..Len(data_buffer) : data_buffer[i].high # data_buffer[1].high
    /\ Get(signal).signal = "HOLD"

-----------------------------------------------------------------------------
(* fourier_enhanced.py: EnhancedFourierStrategy                             *)

\* parameters of the enhanced strategy (params.get(...)); lookback, forecast,
\* smooth_period, atr_period and mtf are those of the FourierStrategy above,
\* the momentum window is scaled down from the default 10
base_stake == 30
max_stake_multiplier == 2
risk_factor == Rat(1, 2)
base_rr_ratio == 4
min_atr_multiplier == Rat(3, 10)
volatility_expansion_threshold == Rat(6, 5)
use_trailing_stop == TRUE
trailing_stop_activation == Rat(3, 2)
trailing_stop_distance == Rat(1, 2)
use_momentum_filter == TRUE
momentum_period == 3

\* literals of the code
AtrHistoryMax == 20     \* _calculate_indicators: atr_history[-20:]
VolHistoryMin == 10     \* _calculate_indicators: len(atr_history) >= 10
VolWindow == 5          \* _calculate_indicators: atr_history[-5:], [-10:-5]
VolBoost == Rat(13, 10)       \* _calculate_signal_strength: 1.3
MomentumBoost == Rat(6, 5)    \* _calculate_signal_strength: 1.2
MomentumAligned == Rat(1, 2)  \* _calculate_signal_strength: 0.5
MomentumLimit == One          \* get_signal: momentum > 1.0, momentum < -1.0

EnhancedRequiredCandles == Max2(Max2(lookback, atr_period), momentum_period) + WarmupMargin

RatMean(s) == RatDiv(RatSum(s), RatOf(Len(s)))

\* _smooth_price
EnhancedSmoothPrice(buf) ==
    LET prices == LastN(Closes(buf), smooth_period)
        n == Len(prices)
    IN  Rat(IntSum([i \in 1..n |-> i * prices[i]]), IntSum([i \in 1..n |-> i]))

\* _calculate_atr, lines 149-153, for the (negative) loop index i
EnhancedTrueRange(buf, i) ==
    LET high == PyIdx(buf, i).high
        low == PyIdx(buf, i).low
        prev_close == IF i > -atr_period THEN PyIdx(buf, i - 1).close ELSE low
    IN  Max2(high - low, Max2(Abs(high - prev_close), Abs(low - prev_close)))

EnhancedCalculateAtr(buf) ==
    IF Len(buf) < atr_period THEN Zero
    ELSE Mean([k \in 1..atr_period |-> EnhancedTrueRange(buf, k - atr_period - 1)])

\* _calculate_indicators, lines 114-121, on the updated atr_history
VolatilityIndicators(hist) ==
    IF Len(hist) >= VolHistoryMin
    THEN LET recent_atr == RatMean(LastN(hist, VolWindow))
             older_atr == RatMean(SubSeq(hist, Len(hist) - VolHistoryMin + 1,
                                         Len(hist) - VolWindow))
             vol_expansion == IF RatLt(Zero, older_atr) THEN RatDiv(recent_atr, older_atr)
                              ELSE One
         IN  ("vol_expansion" :> vol_expansion)
                 @@ ("vol_expanding" :> RatLt(volatility_expansion_threshold, vol_expansion))
    ELSE ("vol_expanding" :> FALSE)

\* _calculate_indicators, lines 124-127 (the closes of the feed are positive)
MomentumIndicators(buf) ==
    IF use_momentum_filter /\ Len(buf) >= momentum_period
    THEN LET closes == LastN(Closes(buf), momentum_period)
         IN  ("momentum" :> Rat((Last(closes) - closes[1]) * 100, closes[1]))
    ELSE << >>

\* _calculate_indicators, lines 130-136
TrendIndicators(buf, atr) ==
    LET sma_20 == Mean(LastN(Closes(buf), SmaShort))
        sma_50 == IF Len(buf) >= SmaLong THEN Mean(LastN(Closes(buf), SmaLong)) ELSE sma_20
        trend_strength == RatAbs(RatSub(sma_20, sma_50))
    IN  ("trend_strength" :> trend_strength)
            @@ ("is_ranging" :> RatLt(trend_strength, RatMul(atr, RatOf(2))))

\* _calculate_indicators on the updated buffer buf and smoothed series sm
EnhancedCalculateIndicators(buf, sm) ==
    LET atr == EnhancedCalculateAtr(buf)
        hist == LastN(Append(atr_history, atr), AtrHistoryMax)
        base == ("atr" :> atr) @@ VolatilityIndicators(hist) @@ MomentumIndicators(buf)
                    @@ TrendIndicators(buf, atr)
    IN  /\ atr_history' = hist
        /\ IF Len(sm) >= lookback
           THEN \E c \in CosValues :
                   /\ IF Amplitude(sm) = Zero THEN c = Zero /\ cos_table' = cos_table
                      ELSE IF CosKey(sm) \in DOMAIN cos_table
                      THEN c = cos_table[CosKey(sm)] /\ cos_table' = cos_table
                      ELSE cos_table' = (CosKey(sm) :> c) @@ cos_table
                   /\ predicted_price' = Some(Predicted(sm, c))
                   /\ indicators' = PredictionIndicators(sm, c) @@ base @@ indicators
           ELSE /\ indicators' = base @@ indicators
                /\ UNCHANGED << predicted_price, cos_table >>

\* update(candle, mtf_candle)
EnhancedUpdate(candle, mtf_candle) ==
    /\ data_buffer' = LastN(Append(data_buffer, candle), EnhancedRequiredCandles + BufferMargin)
    /\ mtf_predicted_price' =
           IF IsNone(mtf_candle) THEN mtf_predicted_price ELSE Some(RatOf(Get(mtf_candle).close))
    /\ smoothed_prices' =
           IF Len(data_buffer') >= smooth_period
           THEN LastN(Append(smoothed_prices, EnhancedSmoothPrice(data_buffer')), lookback)
           ELSE smoothed_prices
    /\ IF Len(data_buffer') >= EnhancedRequiredCandles
       THEN EnhancedCalculateIndicators(data_buffer', smoothed_prices')
       ELSE UNCHANGED << indicators, predicted_price, cos_table, atr_history >>
    /\ UNCHANGED << highest_profit, strategy_class >>

\* _calculate_signal_strength
CalculateSignalStrengthUncapped(current_price, atr, pred, ind) ==
    IF IsNone(pred) \/ atr = Zero THEN Zero
    ELSE LET deviation == RatAbs(RatSub(current_price, Get(pred)))
             base_strength == RatMin(RatDiv(deviation, RatMul(atr, RatOf(2))), One)
             vol_multiplier == IF IndGet(ind, "vol_expanding", FALSE) THEN VolBoost ELSE One
             momentum == IndGet(ind, "momentum", Zero)
             momentum_multiplier ==
                 IF use_momentum_filter
                    /\ \/ RatLt(current_price, Get(pred)) /\ RatLt(momentum, RatNeg(MomentumAligned))
                       \/ RatLt(Get(pred), current_price) /\ RatLt(MomentumAligned, momentum)
                 THEN MomentumBoost ELSE One
         IN  RatMul(RatMul(base_strength, vol_multiplier), momentum_multiplier)

CalculateSignalStrength(current_price, atr, pred, ind) ==
    IF IsNone(pred) \/ atr = Zero THEN Zero
    ELSE LET deviation == RatAbs(RatSub(current_price, Get(pred)))
             base_strength == RatMin(RatDiv(deviation, RatMul(atr, RatOf(2))), One)
             vol_multiplier == IF IndGet(ind, "vol_expanding", FALSE) THEN VolBoost ELSE One
             momentum == IndGet(ind, "momentum", Zero)
             momentum_multiplier ==
                 IF use_momentum_filter
                    /\ \/ RatLt(current_price, Get(pred)) /\ RatLt(momentum, RatNeg(MomentumAligned))
                       \/ RatLt(Get(pred), current_price) /\ RatLt(MomentumAligned, momentum)
                 THEN MomentumBoost ELSE One
         IN  RatMin(RatMul(RatMul(base_strength, vol_multiplier), momentum_multiplier), One)

\* _calculate_dynamic_stake
CalculateDynamicStake(signal_strength) ==
    IF RatLt(signal_strength, Rat(1, 2)) THEN RatOf(base_stake)
    ELSE LET multiplier ==
                 RatAdd(One, RatMul(RatMul(RatSub(signal_strength, Rat(1, 2)), RatOf(2)),
                                    RatOf(max_stake_multiplier - 1)))
         IN  RatMul(RatOf(base_stake), RatMin(multiplier, RatOf(max_stake_multiplier)))

\* get_signal on the state (buf, pred, ind, pos, mtf, hp): the TradeSignal it
\* returns and the highest_profit it leaves
Returns(sig, hp) == [signal |-> sig, highest_profit |-> hp]

\* lines 267-302: a position is set
EnhancedExit(current_price, predicted, pos, hp) ==
    LET pos_type == Get(pos).type
        entry_price == RatOf(Get(pos).entry_price)
        current_pnl == IF pos_type = "LONG" THEN RatSub(current_price, entry_price)
                       ELSE RatSub(entry_price, current_price)
        highest == IF RatLt(hp, current_pnl) THEN current_pnl ELSE hp
        \* base_stake is above 1e-9
        risk_move == RatMul(RatDiv(RatMul(risk_factor, RatOf(base_stake)), RatOf(base_stake)),
                            entry_price)
        activation_profit == RatMul(risk_move, trailing_stop_activation)
        trail_distance == RatMul(risk_move, trailing_stop_distance)
    IN  IF use_trailing_stop /\ RatLt(activation_profit, highest)
           /\ RatLt(current_pnl, RatSub(highest, trail_distance))
        THEN Returns(TradeSignal("CLOSE", One, None, None), Zero)
        ELSE IF pos_type = "LONG" /\ RatLt(predicted, current_price)
        THEN Returns(TradeSignal("CLOSE", One, None, None), Zero)
        ELSE IF pos_type = "SHORT" /\ RatLt(current_price, predicted)
        THEN Returns(TradeSignal("CLOSE", One, None, None), Zero)
        ELSE Returns(Hold, highest)

\* lines 305-377: no position is set
EnhancedEntry(current_price, predicted, atr, ind, mtf, signal_strength, hp) ==
    LET dynamic_stake == CalculateDynamicStake(signal_strength)
        risk_cash_dyn == RatMul(dynamic_stake, risk_factor)
        mtf_set == mtf_enabled /\ ~IsNone(mtf) /\ Get(mtf) # Zero
        momentum == IndGet(ind, "momentum", Zero)
        \* dynamic_stake is above 1e-9
        risk_price_move == RatMul(RatDiv(risk_cash_dyn, dynamic_stake), current_price)
    IN  IF RatLt(current_price, predicted)
        THEN (IF mtf_set /\ RatLe(Get(mtf), current_price) THEN Returns(Hold, hp)
              ELSE IF use_momentum_filter /\ RatLt(MomentumLimit, momentum)
              THEN Returns(Hold, hp)
              ELSE Returns(TradeSignal("BUY", signal_strength,
                               Some(RatSub(current_price, risk_price_move)),
                               Some(RatAdd(current_price,
                                           RatMul(risk_price_move, RatOf(base_rr_ratio))))),
                           Zero))
        ELSE IF RatLt(predicted, current_price)
        THEN (IF mtf_set /\ RatLe(current_price, Get(mtf)) THEN Returns(Hold, hp)
              ELSE IF use_momentum_filter /\ RatLt(momentum, RatNeg(MomentumLimit))
              THEN Returns(Hold, hp)
              ELSE Returns(TradeSignal("SELL", signal_strength,
                               Some(RatAdd(current_price, risk_price_move)),
                               Some(RatSub(current_price,
                                           RatMul(risk_price_move, RatOf(base_rr_ratio))))),
                           Zero))
        ELSE Returns(Hold, hp)

EnhancedGetSignal(buf, pred, ind, pos, mtf, hp) ==
    IF Len(buf) < EnhancedRequiredCandles THEN Returns(Hold, hp)
    ELSE IF IsNone(pred) THEN Returns(Hold, hp)
    ELSE
      LET current_price == RatOf(Last(buf).close)
          predicted == Get(pred)
          atr == IndGet(ind, "atr", Zero)
          is_ranging == IndGet(ind, "is_ranging", FALSE)
          signal_strength == CalculateSignalStrength(current_price, atr, pred, ind)
          min_signal_strength == RatMul(atr, min_atr_multiplier)
          deviation == RatAbs(RatSub(current_price, predicted))
      IN  IF ~is_ranging \/ RatLt(deviation, min_signal_strength) THEN Returns(Hold, hp)
          ELSE IF ~IsNone(pos) THEN EnhancedExit(current_price, predicted, pos, hp)
          ELSE EnhancedEntry(current_price, predicted, atr, ind, mtf, signal_strength, hp)

\* reset (TradingStrategy.reset and EnhancedFourierStrategy.reset)
EnhancedReset ==
    /\ data_buffer' = << >>
    /\ indicators' = << >>
    /\ position' = None
    /\ smoothed_prices' = << >>
    /\ predicted_price' = None
    /\ mtf_predicted_price' = None
    /\ atr_history' = << >>
    /\ highest_profit' = Zero
    /\ UNCHANGED strategy_class

-----------------------------------------------------------------------------
(* A strategy of either class driven directly: update / get_signal /        *)
(* set_position in any order                                                *)

StrategyClasses == {"FourierStrategy", "EnhancedFourierStrategy"}

\* the feed: FlatRows identical candles, MidRows candles of the same close
\* and one spread between high and low, then up to MaxTail candles chosen
\* freely among StrategiesTailKinds
MidRows == 8
MidSpreads == {0, 1}
StrategiesTailKinds == { [close |-> 97, spread |-> 0, ok |-> TRUE],
                         [close |-> 103, spread |-> 2, ok |-> TRUE] }

StrategiesDFs ==
    { MkDF([i \in 1..FlatRows |-> FlatKind]
              \o [i \in 1..MidRows |-> [close |-> 100, spread |-> s, ok |-> TRUE]]
              \o tail) :
        s \in MidSpreads, tail \in SeqsUpTo(StrategiesTailKinds, MaxTail) }

\* the caller feeds the next candle of its feed
CallUpdate ==
    /\ UNCHANGED << profit_factor, liveVars >>
    /\ Len(data_buffer) < Len(df)
    /\ RowOk(df[Len(data_buffer) + 1])
    /\ IF strategy_class = "FourierStrategy"
       THEN StrategyUpdate(Candle(df[Len(data_buffer) + 1]), None)
       ELSE EnhancedUpdate(Candle(df[Len(data_buffer) + 1]), None)
    /\ signal' = None
    /\ UNCHANGED << btVars, position >>

\* a get_signal that would act on its own CLOSE by clearing the position
CallGetSignalClearsPosition ==
    /\ UNCHANGED << profit_factor, liveVars >>
    /\ data_buffer # << >>
    /\ IF strategy_class = "FourierStrategy"
       THEN /\ signal' = Some(GetSignal(data_buffer, predicted_price, indicators, position,
                                        mtf_predicted_price))
            /\ UNCHANGED highest_profit
       ELSE LET r == EnhancedGetSignal(data_buffer, predicted_price, indicators, position,
                                       mtf_predicted_price, highest_profit)
            IN  /\ signal' = Some(r.signal)
                /\ highest_profit' = r.highest_profit
    /\ position' = IF Get(signal').signal = "CLOSE" THEN None ELSE position
    /\ UNCHANGED << btVars, data_buffer, indicators, smoothed_prices,
                    predicted_price, mtf_predicted_price, atr_history, strategy_class,
                    cos_table >>

CallGetSignal ==
    /\ UNCHANGED << profit_factor, liveVars >>
    /\ data_buffer # << >>
    /\ IF strategy_class = "FourierStrategy"
       THEN /\ signal' = Some(GetSignal(data_buffer, predicted_price, indicators, position,
                                        mtf_predicted_price))
            /\ UNCHANGED highest_profit
       ELSE LET r == EnhancedGetSignal(data_buffer, predicted_price, indicators, position,
                                       mtf_predicted_price, highest_profit)
            IN  /\ signal' = Some(r.signal)
                /\ highest_profit' = r.highest_profit
    /\ UNCHANGED << btVars, position, data_buffer, indicators, smoothed_prices,
                    predicted_price, mtf_predicted_price, atr_history, strategy_class,
                    cos_table >>

InitStrategies ==
    /\ df \in StrategiesDFs
    /\ InitBacktester
    /\ initial_balance = 1000
    /\ strategy_class \in StrategyClasses
    /\ position = None
    /\ data_buffer = << >>
    /\ indicators = << >>
    /\ smoothed_prices = << >>
    /\ predicted_price = None
    /\ mtf_predicted_price = None
    /\ atr_history = << >>
    /\ highest_profit = Zero
    /\ cos_table = << >>
    /\ NoProfitFactor
    /\ NoEngine

NextStrategies ==
    \/ CallUpdate
    \/ CallGetSignal
    \/ DoSetPosition

SpecStrategies == InitStrategies /\ [][NextStrategies]_vars

\* C15: every TradeSignal returned by get_signal of either strategy class,
\* after any updates and set_position calls, has a strength within [0, 1];
\* when the ATR is 0 the strength is 0, and the signals whose strength is a
\* quotient by the ATR (BUY, SELL) are only returned with a positive ATR.
C15_StrengthBounded ==
    ~IsNone(signal) =>
        /\ RatLe(Zero, Get(signal).strength)
        /\ RatLe(Get(signal).strength, One)
        /\ IndGet(indicators, "atr", Zero) = Zero => Get(signal).strength = Zero
        /\ Get(signal).signal \in {"BUY", "SELL"} => RatLt(Zero, IndGet(indicators, "atr", Zero))

\* C15 witness: the enhanced strategy returned an entry signal whose strength
\* the momentum boost would have carried above 1.
C15_Witness ==
    /\ strategy_class = "EnhancedFourierStrategy"
    /\ ~IsNone(signal)
    /\ Get(signal).signal \in {"BUY", "SELL"}
    /\ Get(signal).strength = One
    /\ RatLt(One, CalculateSignalStrengthUncapped(RatOf(Last(data_buffer).close),
                                                  indicators["atr"], predicted_price,
                                                  indicators))

\* C15 witness: get_signal after the warm-up with a prediction and an ATR of 0,
\* for each class.
C15_WitnessZeroAtr ==
    /\ strategy_class = "EnhancedFourierStrategy"
    /\ ~IsNone(signal)
    /\ ~IsNone(predicted_price)
    /\ indicators["atr"] = Zero
    /\ Get(signal).strength = Zero

C15_WitnessZeroAtrFourier ==
    /\ strategy_class = "FourierStrategy"
    /\ ~IsNone(signal)
    /\ ~IsNone(predicted_price)
    /\ indicators["atr"] = Zero
    /\ Get(signal).strength = Zero

\* C15 witness: the FourierStrategy returned an entry signal of a strength
\* strictly between 0 and 1.
C15_WitnessFourier ==
    /\ strategy_class = "FourierStrategy"
    /\ ~IsNone(signal)
    /\ Get(signal).signal \in {"BUY", "SELL"}
    /\ RatLt(Zero, Get(signal).strength)
    /\ RatLt(Get(signal).strength, One)

-----------------------------------------------------------------------------
(* A strategy of either class fed with more candles than its buffer holds   *)

\* the feed: LongRows candles that alternate between the two TailKinds
LongRows == 76
Alternating(first, second) ==
    MkDF([i \in 1..LongRows |-> IF i % 2 = 1 THEN first ELSE second])

LongDFs == { Alternating(a, b) : a \in TailKinds, b \in TailKinds }

\* the caller feeds candle idx + 1 of its feed
FeedUpdate ==
    /\ UNCHANGED << profit_factor, liveVars >>
    /\ idx < Len(df)
    /\ RowOk(df[idx + 1])
    /\ IF strategy_class = "FourierStrategy"
       THEN StrategyUpdate(Candle(df[idx + 1]), None)
       ELSE EnhancedUpdate(Candle(df[idx + 1]), None)
    /\ idx' = idx + 1
    /\ signal' = None
    /\ UNCHANGED << bt_pc, df, runs, initial_balance, current_trade, closed_trades,
                    equity_curve, timestamps, running_pnl, result, prev_result, entered,
                    position >>

InitLongFeed ==
    /\ df \in LongDFs
    /\ InitBacktester
    /\ initial_balance = 1000
    /\ strategy_class \in StrategyClasses
    /\ position = None
    /\ data_buffer = << >>
    /\ indicators = << >>
    /\ smoothed_prices = << >>
    /\ predicted_price = None
    /\ mtf_predicted_price = None
    /\ atr_history = << >>
    /\ highest_profit = Zero
    /\ cos_table = << >>
    /\ NoProfitFactor
    /\ NoEngine

NextLongFeed ==
    \/ FeedUpdate
    \/ CallGetSignal

SpecLongFeed == InitLongFeed /\ [][NextLongFeed]_vars

\* the bound of the candle buffer of the class
MaxBuffer ==
    (IF strategy_class = "FourierStrategy" THEN required_candles ELSE EnhancedRequiredCandles)
        + BufferMargin

\* the weighted average of the smooth_period closes that end with candle j
SmoothedAt(j) ==
    Rat(IntSum([i \in 1..smooth_period |-> i * df[j - smooth_period + i].close]),
        IntSum([i \in 1..smooth_period |-> i]))

\* C16: after any number of update() calls the smoothed series holds at
\* most lookback values and the buffer at most required_candles + 50
\* candles; both hold the newest entries, in arrival order, the oldest
\* having been evicted.
C16_BoundedBuffers ==
    /\ Len(smoothed_prices) <= lookback
    /\ Len(data_buffer) <= MaxBuffer
    /\ Len(data_buffer) = IF idx < MaxBuffer THEN idx ELSE MaxBuffer
    /\ \A k \in 1..Len(data_buffer) :
           data_buffer[k] = Candle(df[idx - Len(data_buffer) + k])
    /\ Len(smoothed_prices) =
           IF idx < smooth_period THEN 0
           ELSE IF idx - smooth_period + 1 < lookback THEN idx - smooth_period + 1
           ELSE lookback
    /\ \A k \in 1..Len(smoothed_prices) :
           smoothed_prices[k] = SmoothedAt(idx - Len(smoothed_prices) + k)

\* C16 witness: more candles were fed than the buffer holds, the first ones
\* are gone and the candles differ.
C16_Witness ==
    /\ idx > MaxBuffer + 1
    /\ Len(data_buffer) = MaxBuffer
    /\ data_buffer[1].epoch = idx - MaxBuffer + 1
    /\ data_buffer[1].close # data_buffer[2].close
    /\ Len(smoothed_prices) = lookback
    /\ smoothed_prices[1] # smoothed_prices[2]

-----------------------------------------------------------------------------
(* _find_period on a sampled sine wave                                      *)

\* 1000 * sin(a * 9 degrees) for a = 0..10, rounded; the rounding keeps the
\* order and the equalities of the exact values
SineQuarter == << 0, 156, 309, 454, 588, 707, 809, 891, 951, 988, 1000 >>

\* 1000 * sin(a * 9 degrees) for an angle of a \in 0..39 steps
Sine(a) ==
    IF a <= 10 THEN SineQuarter[a + 1]
    ELSE IF a <= 20 THEN SineQuarter[20 - a + 1]
    ELSE IF a <= 30 THEN -SineQuarter[a - 20 + 1]
    ELSE -SineQuarter[40 - a + 1]

\* 100 samples of midpoint + 10 * sin(2 * pi * i / 20 + phase): a sine wave of
\* period 20 samples (40 steps of 9 degrees) and amplitude 10; the phase is
\* h steps of 9 degrees
SineSeries(h, midpoint) ==
    [i \in 1..100 |-> Rat(midpoint * 1000 + 10 * Sine((2 * (i - 1) + h) % 40), 1000)]

SinePhases == 0..39
SineMidpoints == {0, 100, 1000}

InitSine ==
    /\ df = << >>
    /\ InitBacktester
    /\ initial_balance = 1000
    /\ strategy_class = "FourierStrategy"
    /\ position = None
    /\ data_buffer = << >>
    /\ indicators = << >>
    /\ \E h \in SinePhases, m \in SineMidpoints : smoothed_prices = SineSeries(h, m)
    /\ predicted_price = None
    /\ mtf_predicted_price = None
    /\ atr_history = << >>
    /\ highest_profit = Zero
    /\ cos_table = << >>
    /\ NoProfitFactor
    /\ NoEngine

\* _calculate_prediction, lines 149 and 173: the dominant period of the series
FindPeriodCalled ==
    /\ "dominant_period" \notin DOMAIN indicators
    /\ indicators' = ("dominant_period" :> FindPeriod(smoothed_prices)) @@ indicators
    /\ UNCHANGED << btVars, signal, position, data_buffer, smoothed_prices, predicted_price,
                    mtf_predicted_price, atr_history, highest_profit, strategy_class,
                    cos_table, profit_factor, liveVars >>

NextSine == FindPeriodCalled

SpecSine == InitSine /\ [][NextSine]_vars

\* C17: for a smoothed series that is a sampled sine wave of period 20 and
\* amplitude 10 over 100 values, the period _find_period returns is within 2
\* of 20.
C17_SinePeriodDetected ==
    "dominant_period" \in DOMAIN indicators => Abs(indicators["dominant_period"] - 20) <= 2

\* What _find_period returns for these series: the distance between the last
\* maximum and the last minimum, half a period.
C17_HalfPeriodReturned ==
    "dominant_period" \in DOMAIN indicators => Abs(indicators["dominant_period"] - 10) <= 1

-----------------------------------------------------------------------------
(* Claims about the entry gate and the exits of FourierStrategy.get_signal  *)

\* the state get_signal of the FourierStrategy reads
Warm == Len(data_buffer) >= required_candles /\ ~IsNone(predicted_price)
CurrentPrice == RatOf(Last(data_buffer).close)
Deviation == RatAbs(RatSub(CurrentPrice, Get(predicted_price)))
GatePasses ==
    /\ Warm
    /\ IndGet(indicators, "is_ranging", FALSE)
    /\ RatLe(RatMul(IndGet(indicators, "atr", Zero), atr_multiplier), Deviation)

\* C18: get_signal of the FourierStrategy returns BUY only when no position
\* is set, is_ranging is true, |current_price - predicted_price| >= ATR *
\* atr_multiplier and current_price < predicted_price; SELL only under the
\* same gate with current_price > predicted_price; in every other state
\* without a position it returns HOLD.
C18_EntryGate ==
    (strategy_class = "FourierStrategy" /\ ~IsNone(signal)) =>
        /\ Get(signal).signal = "BUY" =>
               /\ IsNone(position)
               /\ GatePasses
               /\ RatLt(CurrentPrice, Get(predicted_price))
        /\ Get(signal).signal = "SELL" =>
               /\ IsNone(position)
               /\ GatePasses
               /\ RatLt(Get(predicted_price), CurrentPrice)
        /\ (IsNone(position) /\ ~(GatePasses /\ CurrentPrice # Get(predicted_price))) =>
               Get(signal).signal = "HOLD"

\* C18 witness: after the warm-up, without a position and with the price
\* below the prediction by at least ATR * atr_multiplier, get_signal returned
\* HOLD because the market is not ranging.
C18_Witness ==
    /\ strategy_class = "FourierStrategy"
    /\ ~IsNone(signal)
    /\ IsNone(position)
    /\ Warm
    /\ ~indicators["is_ranging"]
    /\ RatLt(CurrentPrice, Get(predicted_price))
    /\ RatLe(RatMul(indicators["atr"], atr_multiplier), Deviation)
    /\ Get(signal).signal = "HOLD"

\* C18 witnesses: BUY and SELL were returned with the gate passed; HOLD was
\* returned in a ranging market because the deviation is below the threshold.
C18_WitnessBuy ==
    /\ strategy_class = "FourierStrategy"
    /\ ~IsNone(signal)
    /\ Get(signal).signal = "BUY"
    /\ GatePasses

C18_WitnessSell ==
    /\ strategy_class = "FourierStrategy"
    /\ ~IsNone(signal)
    /\ Get(signal).signal = "SELL"
    /\ GatePasses

C18_WitnessSmallDeviation ==
    /\ strategy_class = "FourierStrategy"
    /\ ~IsNone(signal)
    /\ IsNone(position)
    /\ Warm
    /\ indicators["is_ranging"]
    /\ CurrentPrice # Get(predicted_price)
    /\ ~GatePasses
    /\ Get(signal).signal = "HOLD"

\* C19: with a LONG position set, the warm-up complete and a prediction
\* present, get_signal returns CLOSE whenever the close is above the
\* predicted price; with a SHORT position, whenever the close is below it.
C19_ExitOnCross ==
    (strategy_class = "FourierStrategy" /\ ~IsNone(signal) /\ Warm /\ ~IsNone(position)) =>
        /\ (Get(position).type = "LONG" /\ RatLt(Get(predicted_price), CurrentPrice)) =>
               Get(signal).signal = "CLOSE"
        /\ (Get(position).type = "SHORT" /\ RatLt(CurrentPrice, Get(predicted_price))) =>
               Get(signal).signal = "CLOSE"

\* What get_signal does: the exits are behind the gate of line 195, so CLOSE
\* is returned on a cross exactly when the market is ranging and the
\* deviation is at least ATR * atr_multiplier.
C19_ExitOnCrossBehindGate ==
    (strategy_class = "FourierStrategy" /\ ~IsNone(signal) /\ Warm /\ ~IsNone(position)) =>
        LET crossed ==
                \/ Get(position).type = "LONG" /\ RatLt(Get(predicted_price), CurrentPrice)
                \/ Get(position).type = "SHORT" /\ RatLt(CurrentPrice, Get(predicted_price))
        IN  Get(signal).signal = (IF crossed /\ GatePasses THEN "CLOSE" ELSE "HOLD")

-----------------------------------------------------------------------------
(* The ledger operations of a Backtester called directly                    *)

MaxCalls == 4
LedgerCloses == {100, 103}

\* the candle of call number idx + 1
LedgerCandle(close) ==
    [open |-> close, high |-> close, low |-> close, close |-> close, epoch |-> idx + 1]

\* _enter_trade(candle, signal_type, signal_obj)
EnterTradeCalled ==
    /\ UNCHANGED << profit_factor, liveVars >>
    /\ idx < MaxCalls
    /\ \E close \in LedgerCloses, signal_type \in {"BUY", "SELL"} :
           EnterTrade(LedgerCandle(close), signal_type,
                      TradeSignal(signal_type, One, None, None))
    /\ idx' = idx + 1
    /\ UNCHANGED << bt_pc, df, runs, initial_balance, equity_curve, timestamps, result,
                    prev_result, signal, stratVars, cos_table >>

\* _close_trade(candle, reason)
CloseTradeCalled ==
    /\ UNCHANGED << profit_factor, liveVars >>
    /\ idx < MaxCalls
    /\ \E close \in LedgerCloses : CloseTrade(LedgerCandle(close), "Signal")
    /\ idx' = idx + 1
    /\ UNCHANGED << bt_pc, df, runs, initial_balance, equity_curve, timestamps, result,
                    prev_result, signal, stratVars, cos_table >>

InitLedger ==
    /\ df = << >>
    /\ InitBacktester
    /\ initial_balance = 1000
    /\ InitStrategy
    /\ NoProfitFactor
    /\ NoEngine

NextLedger ==
    \/ EnterTradeCalled
    \/ CloseTradeCalled

SpecLedger == InitLedger /\ [][NextLedger]_vars

\* C20: _enter_trade invoked while a trade is open changes neither the open
\* trade nor the trade history nor the strategy's position, and _close_trade
\* invoked while nothing is open changes neither the history nor the running
\* PnL nor the strategy's position.
C20_LedgerGuarded ==
    [][ /\ (EnterTradeCalled /\ ~IsNone(current_trade)) =>
               UNCHANGED << current_trade, closed_trades, position >>
        /\ (CloseTradeCalled /\ IsNone(current_trade)) =>
               UNCHANGED << closed_trades, running_pnl, position >> ]_vars

\* What the code does: _close_trade without an open trade changes nothing;
\* _enter_trade replaces the open trade and the position, and the replaced
\* trade never reaches the history.
C20_CloseGuardedEnterReplaces ==
    [][ /\ (CloseTradeCalled /\ IsNone(current_trade)) =>
               UNCHANGED << current_trade, closed_trades, running_pnl, position >>
        /\ (EnterTradeCalled /\ ~IsNone(current_trade)) =>
               /\ current_trade' # current_trade
               /\ Get(current_trade').entry_time = idx + 1
               /\ ~IsNone(position') /\ Get(position').entry_time = idx + 1
               /\ closed_trades' = closed_trades ]_vars

-----------------------------------------------------------------------------
(* Claims about the average true range                                      *)

RequiredCandlesOfClass ==
    IF strategy_class = "FourierStrategy" THEN required_candles ELSE EnhancedRequiredCandles

\* max(high - low, |high - previous close|, |low - previous close|) of the
\* candle at position k > 1 of the buffer
TrueRangeOfCandle(buf, k) ==
    Max2(buf[k].high - buf[k].low,
         Max2(Abs(buf[k].high - buf[k - 1].close), Abs(buf[k].low - buf[k - 1].close)))

\* C21: the ATR is the mean, over the last atr_period candles, of the true
\* range max(high - low, |high - previous candle's close|, |low - previous
\* candle's close|).
C21_AtrIsMeanTrueRange ==
    (Len(data_buffer) >= RequiredCandlesOfClass /\ "atr" \in DOMAIN indicators) =>
        indicators["atr"] =
            Mean([j \in 1..atr_period |->
                    TrueRangeOfCandle(data_buffer, Len(data_buffer) - atr_period + j)])

\* What the code computes: in the FourierStrategy every candle of the window
\* contributes high - low only (the previous close is never read); in the
\* enhanced strategy the first candle of the window contributes high - low
\* and the others their true range.
C21_AtrAsComputed ==
    (Len(data_buffer) >= RequiredCandlesOfClass /\ "atr" \in DOMAIN indicators) =>
        indicators["atr"] =
            Mean([j \in 1..atr_period |->
                    IF strategy_class = "FourierStrategy" \/ j = 1
                    THEN data_buffer[Len(data_buffer) - atr_period + j].high
                             - data_buffer[Len(data_buffer) - atr_period + j].low
                    ELSE TrueRangeOfCandle(data_buffer, Len(data_buffer) - atr_period + j)])

-----------------------------------------------------------------------------
(* client.py _receiver / engine.py on_candle: one candle at a time           *)

\* the ohlc updates waiting in the socket, and those the receiver has taken
OhlcWaiting == Cardinality({i \in 1..Len(ws.inq) : ws.inq[i].kind = "ohlc"})
CandlesTaken == broker.pushed - OhlcWaiting

\* on_candle has started and not returned: it is suspended in the throttle's
\* sleep or in one of buy_contract's two requests
CallbackSuspended == task.recv \in {"sleep", "proposal", "buy"}

\* C22: one candle notification is processed at a time: the receiver takes
\* the next ohlc update (and so starts on_candle for it) only when no
\* on_candle call is suspended in the rate-limit wait or in a broker request,
\* and a step that takes a candle takes exactly one.
C22_OneCandleAtATime ==
    [][CandlesTaken' > CandlesTaken =>
            /\ ~CallbackSuspended
            /\ task.recv = "recv"
            /\ CandlesTaken' = CandlesTaken + 1]_vars

\* a second candle waits in the socket while on_candle of the first is
\* suspended
C22_Witness ==
    /\ CallbackSuspended
    /\ OhlcWaiting >= 1
    /\ CandlesTaken >= 1

C22_WitnessSleep == task.recv = "sleep" /\ OhlcWaiting >= 1

C22_WitnessBroker == task.recv \in {"proposal", "buy"} /\ OhlcWaiting >= 1

\* the waiting candle is taken after the suspended call has returned
C22_WitnessSecondTaken == CandlesTaken = 2 /\ broker.proposals >= 1 /\ task.recv = "recv"

-----------------------------------------------------------------------------
(* engine.py buy_contract / on_candle: broker failures during an order       *)

\* on_candle awaited by a task other than the receiver (a driver that calls
\* engine.on_candle itself): the receiver is then in ws.recv() while the call
\* is suspended and routes the responses of buy_contract's requests
ReceiverRoutes ==
    /\ task.recv \in {"proposal", "buy"}
    /\ ws.inq # << >>
    /\ LET m == Head(ws.inq)
       IN  /\ m.req_id # 0 /\ InPending(m.req_id)
           /\ client' = [client EXCEPT !.pending = PendingPop(m.req_id) \cup {SetResult(m)}]
           /\ ws' = [ws EXCEPT !.inq = Tail(ws.inq)]
    /\ UNCHANGED << engine, task, broker, clock, nonLiveVars >>

\* a token is given and the engine is not in demo mode, so orders are sent
InitOrders ==
    /\ InitLive
    /\ client.api_token
    /\ ~engine.demo

\* the connection is lost while the engine trades: ws.send and ws.recv raise
\* from now on
ConnectionLost ==
    /\ engine.running
    /\ ~ws.closed
    /\ ws' = [ws EXCEPT !.closed = TRUE]
    /\ UNCHANGED << engine, client, task, broker, clock, nonLiveVars >>

\* time passes when no response is waiting to be routed either; on a lost
\* connection only a suspended call still waits for the clock
TimePassesOrders ==
    /\ ~(task.recv \in {"proposal", "buy"} /\ ws.inq # << >> /\ Head(ws.inq).req_id # 0)
    /\ ws.closed => task.recv \in {"sleep", "proposal", "buy"}
    /\ TimePasses

NextOrders ==
    \/ Start
    \/ SendRequestReturns
    \/ WaitForTimeout
    \/ ReceiverRecv
    \/ ReceiverRoutes
    \/ SleepEnds
    \/ BrokerAnswers
    \/ BrokerRejects
    \/ BrokerPushes
    \/ TimePassesOrders
    \/ ConnectionLost
    \/ ReceiverConnectionClosed

SpecOrders == InitOrders /\ [][NextOrders]_vars

\* the request buy_contract is suspended in has failed: its response has an
\* 'error' key (quote error, rejected order), or the 15 s of wait_for are
\* over without a response, or the socket is closed when the throttle ends
QuoteOrOrderRejected == task.recv \in {"proposal", "buy"} /\ FutError(task.recv_req)
RequestTimedOut ==
    task.recv \in {"proposal", "buy"} /\ ~FutDone(task.recv_req) /\ clock >= task.deadline
NotConnected == task.recv = "sleep" /\ ws.closed /\ clock >= task.deadline
OrderFailing == QuoteOrOrderRejected \/ RequestTimedOut \/ NotConnected

\* C23: a broker failure during order submission does not escape on_candle:
\* when the suspended call goes on after a quote error, a rejected order, a
\* request timeout or a closed connection, the receiver loop is back in
\* ws.recv(), no position is recorded, and
\* total_trades and trade_history are unchanged.
C23_OrderFailureContained ==
    [][(OrderFailing /\ task'.recv # task.recv) =>
            /\ task'.recv = "recv"
            /\ engine.current_position = None
            /\ engine'.current_position = None
            /\ engine'.total_trades = engine.total_trades
            /\ engine'.trade_history = engine.trade_history]_vars

\* a failed order has returned and the next candle's order went through
C23_Witness ==
    /\ broker.rejected # {}
    /\ engine.total_trades = 1
    /\ ~IsNone(engine.current_position)
    /\ task.recv = "recv"

C23_WitnessQuoteError == task.recv = "proposal" /\ FutError(task.recv_req)

C23_WitnessRejectedOrder == task.recv = "buy" /\ FutError(task.recv_req)

C23_WitnessTimeout == RequestTimedOut /\ task.recv = "buy"

C23_WitnessNotConnected == NotConnected

\* the next candle is taken after a timed-out order has returned
C23_WitnessAfterTimeout ==
    /\ clock >= request_timeout
    /\ broker.rejected = {}
    /\ engine.total_trades = 0
    /\ broker.proposals >= 1
    /\ CandlesTaken = 2
    /\ task.recv = "proposal"

-----------------------------------------------------------------------------
(* fourier_enhanced.py get_signal: the trailing stop                         *)
(*                                                                          *)
(* An EnhancedFourierStrategy driven directly, with positions whose entry   *)
(* price is far enough from the feed's closes for the unrealized profit to  *)
(* pass trail_activation * risk_move (risk_move is risk_factor *            *)
(* entry_price, half the entry price with the default risk_factor).         *)

TrailingPositions ==
    { None,
      Some([type |-> "LONG", entry_price |-> 8, entry_time |-> 1,
            stop_loss |-> None, take_profit |-> None]),
      Some([type |-> "SHORT", entry_price |-> 100, entry_time |-> 1,
            stop_loss |-> None, take_profit |-> None]) }

SetTrailingPosition ==
    /\ UNCHANGED << profit_factor, liveVars >>
    /\ \E p \in TrailingPositions : p # position /\ position' = p
    /\ signal' = None
    /\ UNCHANGED << btVars, stratVars, cos_table >>

\* the feed: flat candles through the warm-up, then up to MaxTail candles
\* that fall or rise
TrailingTailKinds ==
    { [close |-> 97, spread |-> 0, ok |-> TRUE],
      [close |-> 94, spread |-> 0, ok |-> TRUE],
      [close |-> 103, spread |-> 2, ok |-> TRUE] }

TrailingDFs ==
    { MkDF([i \in 1..(FlatRows + MidRows) |-> FlatKind] \o tail) :
        tail \in SeqsUpTo(TrailingTailKinds, MaxTail) }

InitTrailing ==
    /\ df \in TrailingDFs
    /\ InitBacktester
    /\ initial_balance = 1000
    /\ strategy_class = "EnhancedFourierStrategy"
    /\ position = None
    /\ data_buffer = << >>
    /\ indicators = << >>
    /\ smoothed_prices = << >>
    /\ predicted_price = None
    /\ mtf_predicted_price = None
    /\ atr_history = << >>
    /\ highest_profit = Zero
    /\ cos_table = << >>
    /\ NoProfitFactor
    /\ NoEngine

NextTrailing ==
    \/ CallUpdate
    \/ CallGetSignal
    \/ SetTrailingPosition

SpecTrailing == InitTrailing /\ [][NextTrailing]_vars

\* lines 247-264 of get_signal: warm-up, prediction, and the filter
EnhancedWarm == Len(data_buffer) >= EnhancedRequiredCandles /\ ~IsNone(predicted_price)
EnhancedGatePasses ==
    /\ EnhancedWarm
    /\ IndGet(indicators, "is_ranging", FALSE)
    /\ RatLe(RatMul(IndGet(indicators, "atr", Zero), min_atr_multiplier), Deviation)

\* lines 268-289: the unrealized profit of the position at the last close,
\* the peak once this candle is counted, and the trailing-stop condition
UnrealizedProfit ==
    IF Get(position).type = "LONG"
    THEN RatSub(CurrentPrice, RatOf(Get(position).entry_price))
    ELSE RatSub(RatOf(Get(position).entry_price), CurrentPrice)
PeakProfit == RatMax(highest_profit, UnrealizedProfit)
RiskMove == RatMul(risk_factor, RatOf(Get(position).entry_price))
TrailingStopHit ==
    /\ use_trailing_stop
    /\ RatLt(RatMul(RiskMove, trailing_stop_activation), PeakProfit)
    /\ RatLt(UnrealizedProfit, RatSub(PeakProfit, RatMul(RiskMove, trailing_stop_distance)))

C24_TrailingStopBehindGate ==
    [][(signal' # None /\ ~IsNone(position) /\ EnhancedWarm) =>
            IF EnhancedGatePasses
            THEN /\ TrailingStopHit => Get(signal').signal = "CLOSE"
                 /\ Get(signal').signal = "CLOSE" => highest_profit' = Zero
                 /\ Get(signal').signal # "CLOSE" => highest_profit' = PeakProfit
            ELSE /\ Get(signal').signal = "HOLD"
                 /\ highest_profit' = highest_profit]_vars

\* the trailing stop closes a position whose price has not crossed the
\* prediction
C24_WitnessTrailingClose ==
    /\ ~IsNone(signal) /\ ~IsNone(position) /\ EnhancedGatePasses
    /\ Get(signal).signal = "CLOSE"
    /\ Get(position).type = "LONG"
    /\ RatLe(CurrentPrice, Get(predicted_price))

\* the peak is tracked
C24_WitnessPeak ==
    /\ ~IsNone(signal) /\ ~IsNone(position)
    /\ Get(signal).signal = "HOLD"
    /\ RatLt(Zero, highest_profit)

-----------------------------------------------------------------------------
(* get_signal of both strategies as a read                                   *)
(*                                                                          *)
(* Either class driven directly over feeds that are flat through the        *)
(* warm-up and then move, with the positions of TrailingPositions so that   *)
(* the enhanced strategy's peak tracker moves.                              *)

ReadsDFs ==
    { MkDF([i \in 1..(FlatRows + MidRows) |-> FlatKind] \o tail) :
        tail \in SeqsUpTo(StrategiesTailKinds, MaxTail) }

InitReads ==
    /\ df \in ReadsDFs
    /\ InitBacktester
    /\ initial_balance = 1000
    /\ strategy_class \in StrategyClasses
    /\ position = None
    /\ data_buffer = << >>
    /\ indicators = << >>
    /\ smoothed_prices = << >>
    /\ predicted_price = None
    /\ mtf_predicted_price = None
    /\ atr_history = << >>
    /\ highest_profit = Zero
    /\ cos_table = << >>
    /\ NoProfitFactor
    /\ NoEngine

NextReads ==
    \/ CallUpdate
    \/ CallGetSignal
    \/ SetTrailingPosition

SpecReads == InitReads /\ [][NextReads]_vars

\* C25: a get_signal call leaves the candle buffer, the smoothed series, the
\* indicators, the predicted prices, the ATR history and the position as
\* they were, and opens or closes nothing in a ledger; a FourierStrategy call
\* changes no state at all and, called again with no update or set_position
\* in between, returns the same signal; an EnhancedFourierStrategy call may
\* change the highest-profit tracker only.
C25_GetSignalIsRead ==
    [][signal' # None =>
            /\ data_buffer' = data_buffer
            /\ smoothed_prices' = smoothed_prices
            /\ indicators' = indicators
            /\ predicted_price' = predicted_price
            /\ mtf_predicted_price' = mtf_predicted_price
            /\ atr_history' = atr_history
            /\ position' = position
            /\ btVars' = btVars
            /\ strategy_class = "FourierStrategy" =>
                  /\ highest_profit' = highest_profit
                  /\ signal # None => signal' = signal]_vars

\* a FourierStrategy call has returned CLOSE and the position is still set
C25_Witness ==
    /\ strategy_class = "FourierStrategy"
    /\ ~IsNone(signal) /\ Get(signal).signal = "CLOSE"
    /\ ~IsNone(position)

\* an enhanced call has returned CLOSE, and one has moved the tracker
C25_WitnessEnhancedClose ==
    /\ strategy_class = "EnhancedFourierStrategy"
    /\ ~IsNone(signal) /\ Get(signal).signal = "CLOSE"
    /\ ~IsNone(position)

C25_WitnessTracker ==
    /\ strategy_class = "EnhancedFourierStrategy"
    /\ ~IsNone(signal)
    /\ RatLt(Zero, highest_profit)

C25_WitnessEntry ==
    /\ ~IsNone(signal) /\ Get(signal).signal \in {"BUY", "SELL"}
    /\ IsNone(position) /\ IsNone(current_trade)

-----------------------------------------------------------------------------
(* fourier_strategy.py _find_period on short series                          *)

MaxSeries == 5
SeriesValues == {99, 100, 101}

\* the smoothed series _find_period is called on: every series of up to
\* MaxSeries values, constant ones and ones with repeated extremes included
InitPeriod ==
    /\ df = << >>
    /\ InitBacktester
    /\ initial_balance = 1000
    /\ strategy_class = "FourierStrategy"
    /\ position = None
    /\ data_buffer = << >>
    /\ indicators = << >>
    /\ \E s \in SeqsUpTo(SeriesValues, MaxSeries) :
           smoothed_prices = [i \in 1..Len(s) |-> RatOf(s[i])]
    /\ predicted_price = None
    /\ mtf_predicted_price = None
    /\ atr_history = << >>
    /\ highest_profit = Zero
    /\ cos_table = << >>
    /\ NoProfitFactor
    /\ NoEngine

NextPeriod == FindPeriodCalled

SpecPeriod == InitPeriod /\ [][NextPeriod]_vars

\* C26: on a series of n >= 2 values _find_period returns the distance
\* between the last index of the maximum and the last index of the minimum
\* when that distance is at least 2, and n // 2 when it is 0 or 1 (a constant
\* series included); the result is never 0.
C26_FindPeriod ==
    ("dominant_period" \in DOMAIN indicators /\ Len(smoothed_prices) >= 2) =>
        LET sm == smoothed_prices
            n == Len(sm)
            period == indicators["dominant_period"]
        IN  /\ \E i_max, i_min \in 1..n :
                  /\ \A j \in 1..n : RatLe(sm[j], sm[i_max]) /\ RatLe(sm[i_min], sm[j])
                  /\ \A j \in (i_max + 1)..n : sm[j] # sm[i_max]
                  /\ \A j \in (i_min + 1)..n : sm[j] # sm[i_min]
                  /\ period = IF Abs(i_max - i_min) \in {0, 1} THEN n \div 2
                              ELSE Abs(i_max - i_min)
            /\ period >= 1

\* the extremes repeat and their last occurrences are at least 2 apart
C26_Witness ==
    /\ "dominant_period" \in DOMAIN indicators
    /\ smoothed_prices = << RatOf(101), RatOf(99), RatOf(100), RatOf(100), RatOf(101) >>
    /\ indicators["dominant_period"] = 3

C26_WitnessConstant ==
    /\ "dominant_period" \in DOMAIN indicators
    /\ smoothed_prices = << RatOf(100), RatOf(100), RatOf(100), RatOf(100) >>
    /\ indicators["dominant_period"] = 2

C26_WitnessAdjacent ==
    /\ "dominant_period" \in DOMAIN indicators
    /\ smoothed_prices = << RatOf(100), RatOf(99), RatOf(101) >>
    /\ indicators["dominant_period"] = 1

-----------------------------------------------------------------------------
(* backtester.py: the ledger and the strategy's position                     *)

\* the position dict _enter_trade hands to set_position for a trade
PositionMatches(p, t) ==
    /\ p.type = (IF t.entry_signal = "BUY" THEN "LONG" ELSE "SHORT")
    /\ p.entry_price = t.entry_price
    /\ p.entry_time = t.entry_time

\* C27: at every point of a backtest (after each processed candle, after
\* run has returned, and after a run that raised) the strategy's position is
\* set exactly when the backtester has an open trade, and then it is LONG for
\* a BUY trade and SHORT for a SELL trade with the trade's entry price and
\* entry time.
C27_LedgerAndStrategyInStep ==
    /\ IsNone(position) <=> IsNone(current_trade)
    /\ ~IsNone(current_trade) => PositionMatches(Get(position), Get(current_trade))

\* a SELL trade entered on an earlier candle is open and the strategy holds
\* the SHORT position of it
C27_Witness ==
    /\ bt_pc = "loop"
    /\ ~IsNone(current_trade)
    /\ Get(current_trade).entry_signal = "SELL"
    /\ Get(current_trade).entry_time < df[idx].time
    /\ ~IsNone(position)
    /\ Get(position).type = "SHORT"

\* run has returned after closing trades by signal and at the end
C27_WitnessReturned ==
    /\ bt_pc = "done"
    /\ Len(closed_trades) >= 2
    /\ Last(closed_trades).exit_reason = Some("End of backtest")
    /\ IsNone(position)

-----------------------------------------------------------------------------
(* backtester.py: the equity curve of the report                             *)

\* C28: after run has returned, the last point of the report's equity curve
\* is initial_balance plus the report's total_pnl.
C28_FinalEquityIsFinalBalance ==
    bt_pc = "done" =>
        Last(Get(result).equity_curve) =
            RatAdd(RatOf(initial_balance), Get(result).total_pnl)

\* What run leaves: the last point is initial_balance plus the pnl of the
\* trades closed by a signal; the trade closed at the end of the backtest is
\* in total_pnl but no equity point is appended after it.
C28_FinalEquityOmitsForcedClose ==
    bt_pc = "done" =>
        LET by_signal == SelectSeq(Get(result).trades,
                                   LAMBDA t : t.exit_reason = Some("Signal"))
        IN  Last(Get(result).equity_curve) =
                RatAdd(RatOf(initial_balance), RatSum(Pnls(by_signal)))

-----------------------------------------------------------------------------
(* backtester.py: what closes a trade                                        *)

ExitReasons == {"Signal", "End of backtest"}

OnlySignalOrEndCloses ==
    \A i \in 1..Len(closed_trades) :
        ~IsNone(closed_trades[i].exit_reason) /\ Get(closed_trades[i].exit_reason) \in ExitReasons

\* a processed candle whose signal is not CLOSE leaves an open trade open,
\* wherever the close is relative to the position's stop_loss / take_profit
StopsNeverClose ==
    (ProcessedStep /\ ~IsNone(current_trade) /\ Get(signal').signal # "CLOSE") =>
        /\ current_trade' = current_trade
        /\ closed_trades' = closed_trades
        /\ position' = position

\* C29: every trade in the history was closed with reason "Signal" or "End of
\* backtest"; the stop_loss and take_profit copied onto the strategy's
\* position close nothing: a trade stays open through a candle whose signal
\* is not CLOSE, whatever the price.
C29_OnlySignalOrEndCloses == []OnlySignalOrEndCloses /\ [][StopsNeverClose]_vars

\* a candle closed beyond the stop_loss of the LONG position and the trade is
\* still open after it was processed
C29_Witness ==
    /\ bt_pc = "loop"
    /\ ~IsNone(signal)
    /\ ~IsNone(current_trade)
    /\ ~IsNone(position)
    /\ Get(current_trade).entry_time < df[idx].time
    /\ Get(position).type = "LONG"
    /\ ~IsNone(Get(position).stop_loss)
    /\ RatLt(RatOf(df[idx].close), Get(Get(position).stop_loss))

\* the same trade ends in the history with one of the two reasons
C29_WitnessClosed ==
    /\ bt_pc = "done"
    /\ Len(closed_trades) >= 1
    /\ Last(closed_trades).exit_reason = Some("End of backtest")
    /\ Get(Last(closed_trades).exit_price) = 0
    /\ Last(closed_trades).entry_price = 100

-----------------------------------------------------------------------------
(* engine.py execute_signal / buy_contract: the strategy's view of the       *)
(* engine's position                                                        *)

\* C30: in the live orchestrator the strategy's position is set when the
\* engine has recorded an order and cleared when the engine's position is
\* cleared, so that the strategy holds a position exactly when the engine
\* does.
C30_StrategyInformed ==
    IsNone(engine.current_position) <=> IsNone(position)

\* What the engine does: it never calls set_position, so the strategy's
\* position stays None whatever the engine holds, and the engine's position
\* is cleared by a CLOSE signal only.
C30_StrategyNeverInformed ==
    /\ IsNone(position)
    /\ ~IsNone(engine.current_position) => engine.total_trades >= 1

C30_PositionClearedByCloseOnly ==
    [][(~IsNone(engine.current_position) /\ IsNone(engine'.current_position)) =>
            (signal' # None /\ Get(signal').signal = "CLOSE")]_vars

=============================================================================
